---- MODULE Spec2Model ----
(***************************************************************************)
(* Verification decision tracking of the FLS mapping tools.                *)
(*                                                                         *)
(* Part 1 (SpecMerge, SpecMatches, SpecRemerge, SpecWorkers): the batch    *)
(* report file and the decisions directory, written by record-decision     *)
(* (per-guideline and in-place mode), merge-decisions and reset-batch;     *)
(* SpecRemerge starts from a merged batch, SpecWorkers runs one            *)
(* record-decision per parallel worker and then the merge.                 *)
(* Part 2 (SpecRecord, SpecReview, SpecStatus, SpecSession, SpecBulk): one *)
(* outlier analysis file and review_state.json, written by                 *)
(* record-outlier-analysis, review-outliers and reset-review.              *)
(* Part 3 (SpecExtract, SpecBaseline): extract-comparison-data, and the    *)
(* mapping file, which reset-verification writes.                          *)
(* Part 4 (SpecAttention): the attention score of generate-analysis-       *)
(* reports.                                                                *)
(*                                                                         *)
(* Abstractions: pass-through fields that no operation inspects (notes,    *)
(* titles and scores of matches, rationale text, timestamps) are left out; *)
(* jsonschema.validate is the attribute schema_ok of a file's content.     *)
(***************************************************************************)
EXTENDS Integers, Sequences, FiniteSets, TLC

VARIABLES report, dir, inflight, last, ops, cmp, llm, analysis, res,
          review_state, mapping, add6_data, decision_record, expected, extracted,
          workers

vars ==
  <<report, dir, inflight, last, ops, cmp, llm, analysis, res,
    review_state, mapping, add6_data, decision_record, expected, extracted,
    workers>>

mergeVars == <<report, dir, inflight, last, ops>>

\* the inputs and the output of extract-comparison-data
extractVars == <<mapping, add6_data, decision_record, expected, extracted>>

analysisVars == <<cmp, llm, analysis, res, review_state, extractVars>>

\* Python None / JSON null in a string-valued field
NoneV == "None"

\* Python None / JSON null / absent key in an object-valued field
Null == [kind |-> "null"]

\* an absent file
Absent == [kind |-> "absent"]

\* a file that json.load cannot parse
Corrupt == [kind |-> "corrupt"]

-----------------------------------------------------------------------------
(* Bounds *)

\* number of tool runs and external writes in one behaviour
MaxOps == 3

\* length of the --guidelines list of reset-batch
MaxResetList == 1

-----------------------------------------------------------------------------
(* Data domains *)

\* guideline ids as character strings; G3 is not part of the batch
G1 == <<"R", " ", "1">>

G2 == <<"R", " ", "2">>

G3 == <<"R", " ", "3">>

GuidelineIds == {G1, G2, G3}

\* the guideline_id sequence of the batch report
BatchGuidelines == <<G1, G2>>

Decisions == {"accept_existing", "reject"}

ChangeFields == {"applicability_all_rust", "fls_rationale_type"}

ProposedValues == {"partial"}

ProposedChanges == [field : ChangeFields, proposed_value : ProposedValues]

\* the characters [A-Za-z0-9] that occur in the ids of the model
AlnumChars == {"a", "b", "c", "d", "e", "f", "g", "h", "i", "j", "1"}

FlsPrefix == <<"f", "l", "s", "_">>

\* fls_abcdefghij: ten characters after the prefix
LongId == FlsPrefix \o <<"a", "b", "c", "d", "e", "f", "g", "h", "i", "j">>

\* fls_a1: two characters after the prefix
ShortId == FlsPrefix \o <<"a", "1">>

\* fls_a-b: a character outside [A-Za-z0-9] after the prefix
DashId == FlsPrefix \o <<"a", "-", "b">>

\* a1: no prefix
BareId == <<"a", "1">>

MatchIds == {LongId, ShortId, DashId, BareId}

\* reason of a match: a text, the empty string, one blank
MatchReasons == {<<"o", "k">>, <<>>, <<" ">>}

\* accept_matches argument after split(":", 4): the parts fls_id and reason
Matches == [fls_id : MatchIds, reason : MatchReasons]

\* fls_id.startswith("fls_")
StartsWithFls(id) ==
  Len(id) >= Len(FlsPrefix) /\ SubSeq(id, 1, Len(FlsPrefix)) = FlsPrefix

\* re.compile(r"^fls_[a-zA-Z0-9]+$").match(fls_id)
fls_id_pattern(id) ==
  /\ StartsWithFls(id)
  /\ Len(id) > Len(FlsPrefix)
  /\ \A i \in (Len(FlsPrefix) + 1)..Len(id) : id[i] \in AlnumChars

\* reason.strip(): the reason without leading and trailing blanks
RECURSIVE lstrip(_)
lstrip(t) == IF t # <<>> /\ Head(t) = " " THEN lstrip(Tail(t)) ELSE t

RECURSIVE rstrip(_)
rstrip(t) ==
  IF t # <<>> /\ t[Len(t)] = " " THEN rstrip(SubSeq(t, 1, Len(t) - 1)) ELSE t

strip(t) == rstrip(lstrip(t))

\* not reason or not reason.strip()
EmptyReason(reason) == reason = <<>> \/ strip(reason) = <<>>

\* character codes of the alphabet used in file names
Ord(c) ==
  CASE c = " " -> 32
    [] c = ".json" -> 46
    [] c = "1" -> 49
    [] c = "2" -> 50
    [] c = "3" -> 51
    [] c = "R" -> 82
    [] c = "_" -> 95
    [] c = "c" -> 99
    [] OTHER -> 0

\* guideline_id.replace(" ", "_") + ".json"
guideline_id_to_filename(gid) ==
  [i \in 1..Len(gid) |-> IF gid[i] = " " THEN "_" ELSE gid[i]] \o <<".json">>

\* the name of a renamed copy, e.g. R_1_c.json
StrayName == <<"R", "_", "1", "_", "c", ".json">>

FileNames == {guideline_id_to_filename(g) : g \in GuidelineIds} \cup {StrayName}

\* string comparison of two file names (sorted() of the glob result)
RECURSIVE NameLess(_, _)
NameLess(a, b) ==
  IF a = <<>> THEN b # <<>>
  ELSE IF b = <<>> THEN FALSE
  ELSE IF Ord(Head(a)) # Ord(Head(b)) THEN Ord(Head(a)) < Ord(Head(b))
  ELSE NameLess(Tail(a), Tail(b))

RECURSIVE SortNames(_)
SortNames(S) ==
  IF S = {} THEN <<>>
  ELSE LET m == CHOOSE x \in S : \A y \in S \ {x} : NameLess(x, y)
       IN <<m>> \o SortNames(S \ {m})

\* decisions_dir.glob("*.json"), sorted
decision_files(d) == SortNames({f \in FileNames : d[f] # Absent})

-----------------------------------------------------------------------------
(* Batch report helpers *)

\* truthiness of g.get("verification_decision") and its "decision"
HasDecision(g) ==
  /\ g.verification_decision # Null
  /\ g.verification_decision.decision # NoneV

\* sum(1 for x in s if P(x))
CountSeq(s, P(_)) == Cardinality({i \in DOMAIN s : P(s[i])})

IsApproved(c) == c.approved = "true"

SummaryOf(r) ==
  [ total_guidelines |-> Len(r.guidelines),
    verified_count |-> CountSeq(r.guidelines, HasDecision),
    applicability_changes_proposed |-> Len(r.applicability_changes),
    applicability_changes_approved |-> CountSeq(r.applicability_changes, IsApproved) ]

update_summary(r) == [r EXCEPT !.summary = SummaryOf(r)]

\* index of the first guideline with this id, 0 for None
find_guideline_index(r, gid) ==
  IF \E i \in DOMAIN r.guidelines : r.guidelines[i].guideline_id = gid
  THEN CHOOSE i \in DOMAIN r.guidelines :
         /\ r.guidelines[i].guideline_id = gid
         /\ \A j \in DOMAIN r.guidelines :
              r.guidelines[j].guideline_id = gid => i <= j
  ELSE 0

ChangeKey(c) == <<c.guideline_id, c.field>>

\* a change entry that is born approved
ChangeEntryApproved(gid, pc) ==
  [ guideline_id |-> gid, field |-> pc.field,
    proposed_value |-> pc.proposed_value, approved |-> "true" ]

ChangeEntry(gid, pc) ==
  [ guideline_id |-> gid, field |-> pc.field,
    proposed_value |-> pc.proposed_value, approved |-> NoneV ]

-----------------------------------------------------------------------------
(* merge-decisions *)

\* errors of one decision file in load_decision_files
FileErrors(name, content, schema, validate) ==
  IF content = Corrupt THEN {"parse"}
  ELSE (IF validate /\ schema /\ ~content.schema_ok THEN {"schema"} ELSE {})
       \cup
       (IF name # guideline_id_to_filename(content.guideline_id)
        THEN {"mismatch"} ELSE {})

RECURSIVE LoadFrom(_, _, _, _)
LoadFrom(names, d, schema, validate) ==
  IF names = <<>> THEN [valid_decisions |-> <<>>, errors_by_file |-> <<>>]
  ELSE LET name == Head(names)
           errs == FileErrors(name, d[name], schema, validate)
           rest == LoadFrom(Tail(names), d, schema, validate)
       IN IF errs # {}
          THEN [rest EXCEPT !.errors_by_file =
                  <<[file |-> name, errors |-> errs]>> \o @]
          ELSE [rest EXCEPT !.valid_decisions = <<d[name]>> \o @]

load_decision_files(d, schema, validate) ==
  LoadFrom(decision_files(d), d, schema, validate)

\* the dict existing_changes: key -> index of the last entry with that key
ExistingChanges(changes) ==
  [k \in {ChangeKey(changes[i]) : i \in DOMAIN changes} |->
     CHOOSE i \in DOMAIN changes :
       /\ ChangeKey(changes[i]) = k
       /\ \A j \in DOMAIN changes : ChangeKey(changes[j]) = k => j <= i]

\* verification_decision built from a decision file
VerificationDecision(decision) ==
  [ decision |-> decision.decision,
    accepted_matches |-> decision.accepted_matches,
    proposed_applicability_change |-> decision.proposed_applicability_change ]

\* MergeOne without the existing_changes lookup: a proposed change is always
\* appended
MergeOneAppendOnly(acc, decision) ==
  LET gid == decision.guideline_id
      idx == find_guideline_index(acc.report, gid)
      pc == decision.proposed_applicability_change
      changes == acc.report.applicability_changes
      changes2 == IF pc = Null THEN changes
                  ELSE Append(changes, ChangeEntry(gid, pc))
  IN IF gid = <<>> \/ idx = 0
     THEN [acc EXCEPT !.skipped_count = @ + 1,
                      !.skipped_guidelines = Append(@, gid)]
     ELSE [ report |->
              [acc.report EXCEPT
                 !.applicability_changes = changes2,
                 !.guidelines[idx].verification_decision =
                    VerificationDecision(decision)],
            existing |-> acc.existing,
            merged_count |-> acc.merged_count + 1,
            skipped_count |-> acc.skipped_count,
            skipped_guidelines |-> acc.skipped_guidelines ]

\* MergeOne that leaves the loop at the first skipped decision (break for
\* continue): every later decision is skipped as well
MergeOneBreak(acc, decision) ==
  LET gid == decision.guideline_id
      idx == find_guideline_index(acc.report, gid)
      pc == decision.proposed_applicability_change
      key == <<gid, pc.field>>
      changes == acc.report.applicability_changes
      changes2 ==
        IF pc = Null THEN changes
        ELSE IF key \in DOMAIN acc.existing
             THEN [changes EXCEPT ![acc.existing[key]] = ChangeEntry(gid, pc)]
             ELSE Append(changes, ChangeEntry(gid, pc))
      existing2 ==
        IF pc = Null \/ key \in DOMAIN acc.existing THEN acc.existing
        ELSE [k \in DOMAIN acc.existing \cup {key} |->
                IF k = key THEN Len(changes2) ELSE acc.existing[k]]
  IN IF gid = <<>> \/ idx = 0 \/ acc.skipped_count > 0
     THEN [acc EXCEPT !.skipped_count = @ + 1,
                      !.skipped_guidelines = Append(@, gid)]
     ELSE [ report |->
              [acc.report EXCEPT
                 !.applicability_changes = changes2,
                 !.guidelines[idx].verification_decision =
                    VerificationDecision(decision)],
            existing |-> existing2,
            merged_count |-> acc.merged_count + 1,
            skipped_count |-> acc.skipped_count,
            skipped_guidelines |-> acc.skipped_guidelines ]

\* MergeOne that adds a guideline to the report for a decision whose
\* guideline the report lacks, instead of skipping the decision
MergeOneAddMissing(acc, decision) ==
  LET gid == decision.guideline_id
      idx == find_guideline_index(acc.report, gid)
      pc == decision.proposed_applicability_change
      changes == acc.report.applicability_changes
      changes2 == IF pc = Null THEN changes
                  ELSE Append(changes, ChangeEntry(gid, pc))
      guideline == [ guideline_id |-> gid,
                     verification_decision |-> VerificationDecision(decision) ]
  IN [ report |->
         [acc.report EXCEPT
            !.applicability_changes = changes2,
            !.guidelines = IF idx = 0 THEN Append(@, guideline)
                           ELSE [@ EXCEPT ![idx] = guideline]],
       existing |-> acc.existing,
       merged_count |-> acc.merged_count + 1,
       skipped_count |-> acc.skipped_count,
       skipped_guidelines |-> acc.skipped_guidelines ]

\* one iteration of the loop of merge_decisions_into_report
MergeOne(acc, decision) ==
  LET gid == decision.guideline_id
      idx == find_guideline_index(acc.report, gid)
      pc == decision.proposed_applicability_change
      key == <<gid, pc.field>>
      changes == acc.report.applicability_changes
      changes2 ==
        IF pc = Null THEN changes
        ELSE IF key \in DOMAIN acc.existing
             THEN [changes EXCEPT ![acc.existing[key]] = ChangeEntry(gid, pc)]
             ELSE Append(changes, ChangeEntry(gid, pc))
      existing2 ==
        IF pc = Null \/ key \in DOMAIN acc.existing THEN acc.existing
        ELSE [k \in DOMAIN acc.existing \cup {key} |->
                IF k = key THEN Len(changes2) ELSE acc.existing[k]]
  IN IF gid = <<>>
     THEN [acc EXCEPT !.skipped_count = @ + 1,
                      !.skipped_guidelines = Append(@, <<"(missing guideline_id)">>)]
     ELSE IF idx = 0
     THEN [acc EXCEPT !.skipped_count = @ + 1,
                      !.skipped_guidelines = Append(@, gid)]
     ELSE [ report |->
              [acc.report EXCEPT
                 !.applicability_changes = changes2,
                 !.guidelines[idx].verification_decision =
                    VerificationDecision(decision)],
            existing |-> existing2,
            merged_count |-> acc.merged_count + 1,
            skipped_count |-> acc.skipped_count,
            skipped_guidelines |-> acc.skipped_guidelines ]

RECURSIVE MergeLoop(_, _)
MergeLoop(acc, decisions) ==
  IF decisions = <<>> THEN acc
  ELSE MergeLoop(MergeOne(acc, Head(decisions)), Tail(decisions))

merge_decisions_into_report(r, decisions) ==
  MergeLoop([ report |-> r,
              existing |-> ExistingChanges(r.applicability_changes),
              merged_count |-> 0, skipped_count |-> 0,
              skipped_guidelines |-> <<>> ],
            decisions)

\* the report that main() of merge-decisions holds before save_json
MergedReport(r, decisions) ==
  update_summary(merge_decisions_into_report(r, decisions).report)

\* outcome of the last tool run, as printed and as left on disk
NoRun ==
  [ op |-> "none", target |-> <<>>, dry_run |-> FALSE, validate |-> FALSE,
    schema |-> FALSE, errors_by_file |-> <<>>, wrote_report |-> FALSE,
    wrote_file |-> FALSE, merged_count |-> 0, skipped_guidelines |-> <<>> ]

\* main() of merge.py without the exit on errors under --validate
MergeDecisionsNoAbort(validate, dry_run, schema_exists) ==
  LET schema == validate /\ schema_exists
      loaded == load_decision_files(dir, schema, validate)
      nothing == loaded.valid_decisions = <<>>
      m == merge_decisions_into_report(report, loaded.valid_decisions)
      ran == ~nothing
      writes == ran /\ ~dry_run
  IN /\ ops < MaxOps
     /\ report' = IF writes THEN update_summary(m.report) ELSE report
     /\ last' = [ NoRun EXCEPT
                    !.op = "merge", !.dry_run = dry_run,
                    !.validate = validate, !.schema = schema,
                    !.errors_by_file = loaded.errors_by_file,
                    !.wrote_report = writes,
                    !.merged_count = IF ran THEN m.merged_count ELSE 0,
                    !.skipped_guidelines =
                       IF ran THEN m.skipped_guidelines ELSE <<>> ]
     /\ ops' = ops + 1
     /\ UNCHANGED <<dir, inflight, analysisVars, workers>>

\* main() of merge.py: load, validate, merge, update summary, save
MergeDecisions(validate, dry_run, schema_exists) ==
  LET schema == validate /\ schema_exists
      loaded == load_decision_files(dir, schema, validate)
      aborted == loaded.errors_by_file # <<>> /\ validate
      nothing == loaded.valid_decisions = <<>>
      m == merge_decisions_into_report(report, loaded.valid_decisions)
      ran == ~aborted /\ ~nothing
      writes == ran /\ ~dry_run
  IN /\ ops < MaxOps
     /\ report' = IF writes THEN update_summary(m.report) ELSE report
     /\ last' = [ NoRun EXCEPT
                    !.op = "merge", !.dry_run = dry_run,
                    !.validate = validate, !.schema = schema,
                    !.errors_by_file = loaded.errors_by_file,
                    !.wrote_report = writes,
                    !.merged_count = IF ran THEN m.merged_count ELSE 0,
                    !.skipped_guidelines =
                       IF ran THEN m.skipped_guidelines ELSE <<>> ]
     /\ ops' = ops + 1
     /\ UNCHANGED <<dir, inflight, analysisVars, workers>>

-----------------------------------------------------------------------------
(* validate-decisions *)

\* errors of validate_decision_file; batch_ids = {} stands for None
ValidateFileErrors(name, content, schema, batch_ids) ==
  IF content = Corrupt THEN {"parse"}
  ELSE (IF schema /\ ~content.schema_ok THEN {"schema"} ELSE {})
       \cup
       (IF name # guideline_id_to_filename(content.guideline_id)
        THEN {"mismatch"} ELSE {})
       \cup
       (IF /\ batch_ids # {}
           /\ content.guideline_id # <<>>
           /\ content.guideline_id \notin batch_ids
        THEN {"not_in_batch"} ELSE {})
       \cup
       (IF \E i \in DOMAIN content.accepted_matches :
             ~fls_id_pattern(content.accepted_matches[i].fls_id)
        THEN {"fls_id"} ELSE {})
       \cup
       (IF \E i \in DOMAIN content.accepted_matches :
             EmptyReason(content.accepted_matches[i].reason)
        THEN {"reason"} ELSE {})

\* the loop of validate_decisions_directory; seen maps a guideline_id to
\* the first file that carries it (guideline_id_to_file)
RECURSIVE ValidateFrom(_, _, _, _, _)
ValidateFrom(names, d, schema, batch_ids, seen) ==
  IF names = <<>> THEN <<>>
  ELSE LET name == Head(names)
           content == d[name]
           errs == ValidateFileErrors(name, content, schema, batch_ids)
           gid == content.guideline_id
           hasGid == content # Corrupt /\ gid # <<>>
           dup == hasGid /\ gid \in DOMAIN seen
           seen2 == IF hasGid /\ ~dup
                    THEN [g \in DOMAIN seen \cup {gid} |->
                            IF g = gid THEN name ELSE seen[g]]
                    ELSE seen
           rest == ValidateFrom(Tail(names), d, schema, batch_ids, seen2)
       IN IF dup
          THEN <<[ file |-> name, errors |-> errs \cup {"duplicate"},
                   also_in |-> seen[gid] ]>> \o rest
          ELSE IF errs # {}
          THEN <<[file |-> name, errors |-> errs, also_in |-> <<>>]>> \o rest
          ELSE rest

validate_decisions_directory(d, schema, batch_ids) ==
  ValidateFrom(decision_files(d), d, schema, batch_ids, <<>>)

\* main() of decisions.py: report the errors of the directory, write nothing
ValidateDecisions(schema_exists, with_report) ==
  LET batch_ids ==
        IF with_report
        THEN {report.guidelines[i].guideline_id : i \in DOMAIN report.guidelines}
        ELSE {}
  IN /\ ops < MaxOps
     /\ last' = [ NoRun EXCEPT
                    !.op = "validate_dir", !.schema = schema_exists,
                    !.errors_by_file =
                       validate_decisions_directory(dir, schema_exists, batch_ids) ]
     /\ ops' = ops + 1
     /\ UNCHANGED <<report, dir, inflight, analysisVars, workers>>

-----------------------------------------------------------------------------
(* record-decision *)

DecisionFile(gid, decision, pc) ==
  [ kind |-> "json", guideline_id |-> gid, decision |-> decision,
    accepted_matches |-> <<>>,
    proposed_applicability_change |-> pc, schema_ok |-> TRUE ]

\* the report after the in-place update of record.py
InPlaceReport(r, gid, decision, pc) ==
  LET idx == find_guideline_index(r, gid)
      vd == [ decision |-> decision, accepted_matches |-> <<>>,
              proposed_applicability_change |-> pc ]
      r1 == [r EXCEPT !.guidelines[idx].verification_decision = vd]
      entry == ChangeEntry(gid, pc)
      filtered_changes ==
        SelectSeq(r.applicability_changes,
                  LAMBDA c : ~(c.guideline_id = gid /\ c.field = entry.field))
      r2 == IF pc = Null THEN r1
            ELSE [r1 EXCEPT !.applicability_changes =
                    Append(filtered_changes, entry)]
  IN update_summary(r2)

\* the workers of the parallel mode after a run for gid: the worker that was
\* assigned gid has made its run (dry runs included: the run is over)
WorkerDone(ws, gid) ==
  IF ws = Null THEN Null
  ELSE [ w \in DOMAIN ws |->
           IF ws[w].guideline = gid THEN [ws[w] EXCEPT !.done = TRUE]
           ELSE ws[w] ]

\* per-guideline mode that also updates the report it was given
RecordDecisionPerGuidelineAndReport(gid, decision, pc, dry_run) ==
  /\ ops < MaxOps
  /\ dir' = IF dry_run THEN dir
            ELSE [dir EXCEPT ![guideline_id_to_filename(gid)] =
                    DecisionFile(gid, decision, pc)]
  /\ report' = IF dry_run \/ find_guideline_index(report, gid) = 0 THEN report
               ELSE InPlaceReport(report, gid, decision, pc)
  /\ last' = [ NoRun EXCEPT !.op = "record_file", !.target = gid,
                            !.dry_run = dry_run, !.wrote_file = ~dry_run ]
  /\ ops' = ops + 1
  /\ workers' = WorkerDone(workers, gid)
  /\ UNCHANGED <<inflight, analysisVars>>

\* per-guideline mode that writes every decision to one file of the directory
RecordDecisionPerGuidelineOneFile(gid, decision, pc, dry_run) ==
  /\ ops < MaxOps
  /\ dir' = IF dry_run THEN dir
            ELSE [dir EXCEPT ![StrayName] = DecisionFile(gid, decision, pc)]
  /\ last' = [ NoRun EXCEPT !.op = "record_file", !.target = gid,
                            !.dry_run = dry_run, !.wrote_file = ~dry_run ]
  /\ ops' = ops + 1
  /\ workers' = WorkerDone(workers, gid)
  /\ UNCHANGED <<report, inflight, analysisVars>>

\* per-guideline mode of main() of record.py: writes one decision file
RecordDecisionPerGuideline(gid, decision, pc, dry_run) ==
  /\ ops < MaxOps
  /\ dir' = IF dry_run THEN dir
            ELSE [dir EXCEPT ![guideline_id_to_filename(gid)] =
                    DecisionFile(gid, decision, pc)]
  /\ last' = [ NoRun EXCEPT !.op = "record_file", !.target = gid,
                            !.dry_run = dry_run, !.wrote_file = ~dry_run ]
  /\ ops' = ops + 1
  /\ workers' = WorkerDone(workers, gid)
  /\ UNCHANGED <<report, inflight, analysisVars>>

\* parse_match: the match of an --accept-match argument, or Null where the
\* code raises ValueError; the reason is taken as it is
parse_match(match) ==
  IF ~StartsWithFls(match.fls_id) THEN Null
  ELSE [fls_id |-> match.fls_id, reason |-> match.reason]

\* per-guideline mode of record.py with one --accept-match argument: the run
\* exits if parse_match raises, or if the schema file exists and the decision
\* file fails it (schema_ok: what jsonschema says of the file)
RecordDecisionWithMatch(gid, decision, match, schema_exists, schema_ok, dry_run) ==
  LET parsed == parse_match(match)
      failed == parsed = Null \/ (schema_exists /\ ~schema_ok)
      writes == ~failed /\ ~dry_run
  IN /\ ops < MaxOps
     /\ dir' = IF writes
               THEN [dir EXCEPT ![guideline_id_to_filename(gid)] =
                       [ DecisionFile(gid, decision, Null) EXCEPT
                           !.accepted_matches = <<parsed>>,
                           !.schema_ok = schema_ok ]]
               ELSE dir
     /\ last' = [ NoRun EXCEPT !.op = "record_file", !.target = gid,
                               !.dry_run = dry_run, !.wrote_file = writes ]
     /\ ops' = ops + 1
     /\ UNCHANGED <<report, inflight, analysisVars, workers>>

\* in-place mode of main() of record.py, up to the point before save_json:
\* the report is read and updated in the memory of the run.  A run that
\* fails (guideline not in the report) or is a dry run ends here.
RecordInPlaceLoad(gid, decision, pc, dry_run) ==
  LET found == find_guideline_index(report, gid) # 0
      writes == found /\ ~dry_run
  IN /\ ops < MaxOps
     /\ inflight = Null
     /\ inflight' = IF writes
                    THEN [ target |-> gid,
                           report |-> InPlaceReport(report, gid, decision, pc) ]
                    ELSE Null
     /\ last' = [ NoRun EXCEPT !.op = "record_inplace_load", !.target = gid,
                               !.dry_run = dry_run ]
     /\ ops' = ops + 1
     /\ UNCHANGED <<report, dir, analysisVars, workers>>

\* in-place mode of main() of record.py: save_json(report_path, report)
RecordInPlaceSave ==
  /\ inflight # Null
  /\ report' = inflight.report
  /\ inflight' = Null
  /\ last' = [ NoRun EXCEPT !.op = "record_inplace", !.target = inflight.target,
                            !.wrote_report = TRUE ]
  /\ UNCHANGED <<dir, ops, analysisVars, workers>>

-----------------------------------------------------------------------------
(* reset-batch *)

\* ids of the guidelines whose decision reset_batch_report resets
ResetIds(r, guideline_ids) ==
  { i \in DOMAIN r.guidelines :
      /\ (guideline_ids = {} \/ r.guidelines[i].guideline_id \in guideline_ids)
      /\ r.guidelines[i].verification_decision # Null }

\* the data reset_batch_report dumps; the summary is not touched
ResetReport(r, guideline_ids) ==
  [ r EXCEPT
      !.guidelines =
         [ i \in DOMAIN r.guidelines |->
             IF i \in ResetIds(r, guideline_ids)
             THEN [r.guidelines[i] EXCEPT !.verification_decision = Null]
             ELSE r.guidelines[i] ],
      !.applicability_changes = <<>> ]

\* reset_batch_report: guideline_ids = {} stands for None (reset all)
ResetBatch(guideline_ids, dry_run) ==
  LET writes == ~dry_run /\ ResetIds(report, guideline_ids) # {}
  IN /\ ops < MaxOps
     /\ report' = IF writes THEN ResetReport(report, guideline_ids) ELSE report
     /\ last' = [ NoRun EXCEPT !.op = "reset", !.dry_run = dry_run,
                               !.wrote_report = writes ]
     /\ ops' = ops + 1
     /\ UNCHANGED <<dir, inflight, analysisVars, workers>>

-----------------------------------------------------------------------------
(* the environment of the tools *)

\* a human records the sign-off of a proposed applicability change
HumanApproval(i, v) ==
  /\ ops < MaxOps
  /\ i \in DOMAIN report.applicability_changes
  /\ report.applicability_changes[i].approved # v
  /\ report' = [report EXCEPT !.applicability_changes[i].approved = v]
  /\ last' = [NoRun EXCEPT !.op = "approve"]
  /\ ops' = ops + 1
  /\ UNCHANGED <<dir, inflight, analysisVars, workers>>

\* a decision file is copied under another name
CopyFile(f) ==
  /\ ops < MaxOps
  /\ f # StrayName
  /\ dir[f] # Absent
  /\ dir[StrayName] # dir[f]
  /\ dir' = [dir EXCEPT ![StrayName] = dir[f]]
  /\ last' = [NoRun EXCEPT !.op = "copy"]
  /\ ops' = ops + 1
  /\ UNCHANGED <<report, inflight, analysisVars, workers>>

\* a decision file is truncated or otherwise made unparsable
CorruptFile(f) ==
  /\ ops < MaxOps
  /\ dir[f] \notin {Absent, Corrupt}
  /\ dir' = [dir EXCEPT ![f] = Corrupt]
  /\ last' = [NoRun EXCEPT !.op = "corrupt"]
  /\ ops' = ops + 1
  /\ UNCHANGED <<report, inflight, analysisVars, workers>>

\* a decision file is edited by hand and loses its required decision field
InvalidateFile(f) ==
  /\ ops < MaxOps
  /\ dir[f] \notin {Absent, Corrupt}
  /\ dir[f].schema_ok
  /\ dir' = [dir EXCEPT ![f] = [@ EXCEPT !.schema_ok = FALSE,
                                         !.decision = NoneV]]
  /\ last' = [NoRun EXCEPT !.op = "invalidate"]
  /\ ops' = ops + 1
  /\ UNCHANGED <<report, inflight, analysisVars, workers>>

-----------------------------------------------------------------------------
(* SpecMerge *)

EmptyReport ==
  update_summary(
    [ guidelines |->
        [ i \in DOMAIN BatchGuidelines |->
            [ guideline_id |-> BatchGuidelines[i],
              verification_decision |-> Null ] ],
      applicability_changes |-> <<>>,
      summary |-> Null ])

\* no outlier analysis file for the guideline
NoAnalysis == [kind |-> "absent"]

\* no run of an analysis tool yet
NoRes == [op |-> "none"]

\* review_state.json before any bulk rule and any review: the bulk rules
\* (fls_id -> contexts list and reason), the summary over the analysis files
\* and the number of entries of reset_log
EmptyReviewState ==
  [ bulk_rules |-> [accept_removals |-> <<>>, accept_additions |-> <<>>],
    summary |-> [total |-> 0, fully_reviewed |-> 0],
    reset_log |-> 0 ]

\* no run of extract-comparison-data is part of the behaviour
NoExtract ==
  /\ mapping = Null
  /\ add6_data = Null
  /\ decision_record = Null
  /\ expected = Null
  /\ extracted = Null

\* no parallel worker is part of the behaviour
NoWorkers == workers = Null

InitMerge ==
  /\ report = EmptyReport
  /\ dir = [f \in FileNames |-> Absent]
  /\ inflight = Null
  /\ last = NoRun
  /\ ops = 0
  /\ cmp = Null
  /\ llm = Null
  /\ analysis = NoAnalysis
  /\ res = NoRes
  /\ review_state = EmptyReviewState
  /\ NoExtract
  /\ NoWorkers

ResetLists == {S \in SUBSET GuidelineIds : Cardinality(S) <= MaxResetList}

NextMerge ==
  \/ \E validate \in BOOLEAN, dry_run \in BOOLEAN, schema_exists \in BOOLEAN :
       MergeDecisions(validate, dry_run, schema_exists)
  \/ \E gid \in GuidelineIds, d \in Decisions,
        pc \in ProposedChanges \cup {Null}, dry_run \in BOOLEAN :
       RecordDecisionPerGuideline(gid, d, pc, dry_run)
  \/ \E gid \in GuidelineIds, d \in Decisions,
        pc \in ProposedChanges \cup {Null}, dry_run \in BOOLEAN :
       RecordInPlaceLoad(gid, d, pc, dry_run)
  \/ RecordInPlaceSave
  \/ \E ids \in ResetLists, dry_run \in BOOLEAN : ResetBatch(ids, dry_run)
  \/ \E schema_exists \in BOOLEAN, with_report \in BOOLEAN :
       ValidateDecisions(schema_exists, with_report)
  \/ \E i \in 1..4, v \in {"true", "false"} : HumanApproval(i, v)
  \/ \E f \in FileNames : CopyFile(f)
  \/ \E f \in FileNames : CorruptFile(f)
  \/ \E f \in FileNames : InvalidateFile(f)

SpecMerge == InitMerge /\ [][NextMerge]_vars

\* decision files with accepted matches: record, validate, merge
NextMatches ==
  \/ \E validate \in BOOLEAN, dry_run \in BOOLEAN, schema_exists \in BOOLEAN :
       MergeDecisions(validate, dry_run, schema_exists)
  \/ \E gid \in GuidelineIds, match \in Matches, schema_exists \in BOOLEAN,
        schema_ok \in BOOLEAN, dry_run \in BOOLEAN :
       RecordDecisionWithMatch(gid, "accept_existing", match, schema_exists,
                               schema_ok, dry_run)
  \/ \E schema_exists \in BOOLEAN, with_report \in BOOLEAN :
       ValidateDecisions(schema_exists, with_report)

SpecMatches == InitMerge /\ [][NextMatches]_vars

\* the decisions directories that record-decision leaves for the batch: for
\* each guideline no file or the file of a decision
RecordedDirs ==
  { [ f \in FileNames |->
        IF \E g \in DOMAIN c : f = guideline_id_to_filename(g)
        THEN LET g == CHOOSE x \in DOMAIN c : f = guideline_id_to_filename(x)
             IN IF c[g] = Absent THEN Absent
                ELSE DecisionFile(g, "accept_existing", c[g])
        ELSE Absent ] :
      c \in [{BatchGuidelines[i] : i \in DOMAIN BatchGuidelines} ->
               ProposedChanges \cup {Null, Absent}] }

\* a batch whose decision files were merged once; then the sign-off of the
\* proposed changes and further runs of merge-decisions over the same files
InitRemerge ==
  /\ dir \in RecordedDirs
  /\ report = MergedReport(EmptyReport,
                 load_decision_files(dir, FALSE, FALSE).valid_decisions)
  /\ inflight = Null
  /\ last = NoRun
  /\ ops = 0
  /\ cmp = Null
  /\ llm = Null
  /\ analysis = NoAnalysis
  /\ res = NoRes
  /\ review_state = EmptyReviewState
  /\ NoExtract
  /\ NoWorkers

NextRemerge ==
  \/ \E validate \in BOOLEAN, dry_run \in BOOLEAN, schema_exists \in BOOLEAN :
       MergeDecisions(validate, dry_run, schema_exists)
  \/ \E i \in 1..2, v \in {"true", "false"} : HumanApproval(i, v)

SpecRemerge == InitRemerge /\ [][NextRemerge]_vars

-----------------------------------------------------------------------------
(* SpecWorkers: the parallel mode. Each worker records the decision of the *)
(* guideline it was assigned, in any order; merge-decisions runs once all  *)
(* workers have made their run.                                            *)

\* every run but the last of a behaviour is a worker's
NumWorkers == MaxOps - 1

\* the record-decision command line of one worker
WorkerCommands ==
  [ guideline : GuidelineIds, decision : Decisions,
    pc : ProposedChanges \cup {Null}, done : {FALSE} ]

\* suggest_worker_assignment: the lists of two workers are disjoint
WorkerAssignments ==
  { ws \in [1..NumWorkers -> WorkerCommands] :
      \A i, j \in 1..NumWorkers : i # j => ws[i].guideline # ws[j].guideline }

InitWorkers ==
  /\ workers \in WorkerAssignments
  /\ report = EmptyReport
  /\ dir = [f \in FileNames |-> Absent]
  /\ inflight = Null
  /\ last = NoRun
  /\ ops = 0
  /\ cmp = Null
  /\ llm = Null
  /\ analysis = NoAnalysis
  /\ res = NoRes
  /\ review_state = EmptyReviewState
  /\ NoExtract

\* worker w runs record-decision for its guideline
WorkerRecord(w) ==
  /\ ~workers[w].done
  /\ RecordDecisionPerGuideline(workers[w].guideline, workers[w].decision,
                                workers[w].pc, FALSE)

\* merge-decisions, run after the last worker
MergeAfterWorkers ==
  /\ \A w \in DOMAIN workers : workers[w].done
  /\ \E validate \in BOOLEAN, dry_run \in BOOLEAN, schema_exists \in BOOLEAN :
       MergeDecisions(validate, dry_run, schema_exists)

NextWorkers ==
  \/ \E w \in 1..NumWorkers : WorkerRecord(w)
  \/ MergeAfterWorkers

SpecWorkers == InitWorkers /\ [][NextWorkers]_vars

\* the decisions directory that the runs made so far leave, whatever their
\* order: one file per worker that has run, named after its guideline
WorkersDir(ws) ==
  [ f \in FileNames |->
      IF \E w \in DOMAIN ws :
           ws[w].done /\ guideline_id_to_filename(ws[w].guideline) = f
      THEN LET w == CHOOSE v \in DOMAIN ws :
                      /\ ws[v].done
                      /\ guideline_id_to_filename(ws[v].guideline) = f
           IN DecisionFile(ws[w].guideline, ws[w].decision, ws[w].pc)
      ELSE Absent ]

AllDone(ws) == [w \in DOMAIN ws |-> [ws[w] EXCEPT !.done = TRUE]]

\* C29: In parallel mode a record-decision run for guideline g writes only the
\* decision file named after g and never the batch report or another file:
\* whatever the order in which workers on pairwise distinct guidelines run,
\* the directory holds exactly one file per finished worker, the report is
\* untouched until the merge, and the merge that follows the last worker
\* leaves the report that the assignment alone determines.
C29_WorkersIndependent ==
  /\ dir = WorkersDir(workers)
  /\ last.op # "merge" => report = EmptyReport
  /\ last.op = "merge" =>
        report =
          IF last.wrote_report
          THEN MergedReport(
                 EmptyReport,
                 load_decision_files(WorkersDir(AllDone(workers)),
                                     last.schema, last.validate).valid_decisions)
          ELSE EmptyReport

\* every worker has run and the merge has written both decisions
C29_Witness ==
  /\ last.op = "merge"
  /\ last.wrote_report
  /\ last.merged_count = NumWorkers
  /\ \A w \in DOMAIN workers : workers[w].done
  /\ \E w \in DOMAIN workers : workers[w].pc # Null
  /\ \A i \in DOMAIN report.guidelines :
       report.guidelines[i].verification_decision # Null

-----------------------------------------------------------------------------
(* Properties of the batch merge *)

Range(s) == {s[i] : i \in DOMAIN s}

\* the sequences that list the elements of s in another order
Perms(s) ==
  { [i \in DOMAIN s |-> s[p[i]]] :
      p \in {q \in [DOMAIN s -> DOMAIN s] : \A i, j \in DOMAIN s :
                                                q[i] = q[j] => i = j} }

BagOf(s) == [e \in Range(s) |-> Cardinality({i \in DOMAIN s : s[i] = e})]

VdsOf(r) ==
  [i \in DOMAIN r.guidelines |-> r.guidelines[i].verification_decision]

\* the decision lists that a run of merge-decisions can load from dir
LoadedLists ==
  { load_decision_files(dir, schema, validate).valid_decisions :
      schema \in BOOLEAN, validate \in BOOLEAN }

\* C1: merging the decisions of the directory into the report and then
\* merging the same decisions again yields the same summary and the same
\* verification_decision of every guideline as merging them once.
C1_MergeIdempotent ==
  \A D \in LoadedLists :
    LET once == MergedReport(report, D)
        twice == MergedReport(once, D)
    IN /\ twice.summary = once.summary
       /\ VdsOf(twice) = VdsOf(once)

\* a merge wrote a report that carries a merged decision and a proposed change
C1_Witness ==
  /\ last.op = "merge"
  /\ last.wrote_report
  /\ last.merged_count >= 1
  /\ report.applicability_changes # <<>>

\* C2 as claimed: merging the loaded records in any order gives the same
\* report, the applicability_changes array included.
C2_OrderIndependentReport ==
  \A D \in LoadedLists : \A P \in Perms(D) :
    MergedReport(report, P) = MergedReport(report, D)

\* C2 amended: merging the loaded records in any order gives the same
\* verification_decision of every guideline, the same summary and the same
\* applicability_changes entries up to the order of the array.
C2_OrderIndependentUpToOrder ==
  \A D \in LoadedLists : \A P \in Perms(D) :
    LET a == MergedReport(report, P)
        b == MergedReport(report, D)
    IN /\ VdsOf(a) = VdsOf(b)
       /\ a.summary = b.summary
       /\ BagOf(a.applicability_changes) = BagOf(b.applicability_changes)

\* a merge of two decisions, both with a proposed change, wrote the report
C2_Witness ==
  /\ last.op = "merge"
  /\ last.wrote_report
  /\ last.merged_count >= 2
  /\ Len(report.applicability_changes) >= 2

\* guideline ids carried by two or more parsable files of a directory
DupGids(d) ==
  { g \in GuidelineIds :
      Cardinality({f \in FileNames :
                     d[f].kind = "json" /\ d[f].guideline_id = g}) >= 2 }

VdOf(r, g) == r.guidelines[find_guideline_index(r, g)].verification_decision

DuplicateErrors(errors_by_file) ==
  {i \in DOMAIN errors_by_file : "duplicate" \in errors_by_file[i].errors}

\* C3: when two decision files carry the same guideline_id, a merge run
\* reports exactly one duplicate-guideline error and leaves the report's
\* verification_decision of that guideline as it was.
C3_DuplicateIsConflict ==
  [][ (last'.op = "merge" /\ DupGids(dir) # {}) =>
        /\ Cardinality(DuplicateErrors(last'.errors_by_file)) =
             Cardinality(DupGids(dir))
        /\ \A g \in DupGids(dir) :
             find_guideline_index(report, g) # 0 =>
               VdOf(report', g) = VdOf(report, g) ]_vars

\* C4: after every operation that writes the report, the summary counters
\* equal the values derived from the guidelines and applicability_changes.
C4_SummaryDerived ==
  (last.op \in {"merge", "record_inplace", "reset"} /\ last.wrote_report) =>
    /\ report.summary.verified_count =
         CountSeq(report.guidelines, HasDecision)
    /\ report.summary.applicability_changes_proposed =
         Len(report.applicability_changes)
    /\ report.summary.applicability_changes_approved =
         CountSeq(report.applicability_changes, IsApproved)

\* a file that does not parse, violates the schema or is misnamed
HasValidationError(name, content) ==
  /\ content # Absent
  /\ \/ content = Corrupt
     \/ ~content.schema_ok
     \/ name # guideline_id_to_filename(content.guideline_id)

\* the files that parse and carry the guideline_id their name suggests
LenientList ==
  LET good == {f \in FileNames :
                 /\ dir[f].kind = "json"
                 /\ f = guideline_id_to_filename(dir[f].guideline_id)}
      names == SortNames(good)
  IN [i \in DOMAIN names |-> dir[names[i]]]

C6_MergeSoleWriter ==
  [][ report' # report => last'.op \in {"merge", "approve"} ]_vars

\* C6 amended: record-decision in per-guideline mode never changes the
\* report; the report is changed by merge, by in-place record-decision and
\* by reset-batch (and by the human sign-off), each of which rewrites the
\* whole file.
C6_ReportWriters ==
  [][ /\ last'.op = "record_file" => report' = report
      /\ report' # report =>
           last'.op \in {"merge", "record_inplace", "reset", "approve"} ]_vars

\* a per-guideline record-decision wrote its file next to a non-empty report
C6_Witness ==
  /\ last.op = "record_file"
  /\ last.wrote_file
  /\ report # EmptyReport

\* an in-place run saved its copy of the report over a merged decision
C6_LostUpdate ==
  /\ last.op = "record_inplace"
  /\ \E i \in DOMAIN report.guidelines :
       /\ report.guidelines[i].verification_decision = Null
       /\ dir[guideline_id_to_filename(report.guidelines[i].guideline_id)].kind
            = "json"

\* the keys (guideline_id, field) of the proposed changes that the last run
\* of merge-decisions took from the decision files it merged
MergedKeys ==
  LET loaded == load_decision_files(dir, last.schema, last.validate)
  IN { <<loaded.valid_decisions[i].guideline_id,
         loaded.valid_decisions[i].proposed_applicability_change.field>> :
         i \in { j \in DOMAIN loaded.valid_decisions :
                   /\ loaded.valid_decisions[j].proposed_applicability_change
                        # Null
                   /\ find_guideline_index(
                        report, loaded.valid_decisions[j].guideline_id) # 0 } }

\* C14: after a run of merge-decisions that wrote the report, every
\* applicability_changes entry the run inserted or updated has approved =
\* null and every other entry is as it was; in any step, an entry that is
\* approved and was not in the report before is the work of the human
\* sign-off, never of a tool.
C14_MergeNeverApproves ==
  [][ /\ (last'.op = "merge" /\ last'.wrote_report) =>
           \A i \in DOMAIN report'.applicability_changes :
             LET c == report'.applicability_changes[i]
             IN IF ChangeKey(c) \in MergedKeys'
                THEN c.approved = NoneV
                ELSE /\ i \in DOMAIN report.applicability_changes
                     /\ report.applicability_changes[i] = c
      /\ (last'.op = "merge" /\ ~last'.wrote_report) => report' = report
      /\ ( \E i \in DOMAIN report'.applicability_changes :
             /\ report'.applicability_changes[i].approved = "true"
             /\ report'.applicability_changes[i]
                  \notin Range(report.applicability_changes) )
         => last'.op = "approve"
    ]_vars

\* a run of merge-decisions wrote a report with a pending entry for a change
\* proposed by a decision file
C14_Witness ==
  /\ last.op = "merge"
  /\ last.wrote_report
  /\ MergedKeys # {}
  /\ \E i \in DOMAIN report.applicability_changes :
       /\ ChangeKey(report.applicability_changes[i]) \in MergedKeys
       /\ report.applicability_changes[i].approved = NoneV

\* the (guideline_id, field) pairs of the proposed changes that the current
\* verification decisions of the report carry
CarriedKeys(r) ==
  { <<r.guidelines[i].guideline_id,
      r.guidelines[i].verification_decision.proposed_applicability_change.field>> :
      i \in { j \in DOMAIN r.guidelines :
                /\ r.guidelines[j].verification_decision # Null
                /\ r.guidelines[j].verification_decision
                     .proposed_applicability_change # Null } }

\* the (guideline_id, field) pairs of the applicability_changes array
ListedKeys(r) ==
  {ChangeKey(r.applicability_changes[i]) : i \in DOMAIN r.applicability_changes}

\* C26: after any sequence of merge, in-place record-decision and
\* reset-batch runs, applicability_changes has an entry for (guideline_id,
\* field) iff the current verification_decision of that guideline carries a
\* proposed_applicability_change with that field, and no two entries share
\* (guideline_id, field)
C26_ChangesMatchDecisions ==
  /\ ListedKeys(report) = CarriedKeys(report)
  /\ \A i, j \in DOMAIN report.applicability_changes :
        ChangeKey(report.applicability_changes[i])
          = ChangeKey(report.applicability_changes[j]) => i = j

\* what the tools do keep: no two entries share (guideline_id, field)
C26_NoDuplicateKeys ==
  \A i, j \in DOMAIN report.applicability_changes :
     ChangeKey(report.applicability_changes[i])
       = ChangeKey(report.applicability_changes[j]) => i = j

\* C27: a run of merge-decisions over an unchanged decision set leaves every
\* recorded approval as it is: an applicability_changes entry whose approved
\* is true or false before the run has the same value after it, and
\* summary.applicability_changes_approved does not decrease
C27_RemergeKeepsApproval ==
  [][ last'.op = "merge" =>
        /\ \A i \in DOMAIN report.applicability_changes :
             report.applicability_changes[i].approved \in {"true", "false"} =>
               /\ i \in DOMAIN report'.applicability_changes
               /\ report'.applicability_changes[i].approved
                    = report.applicability_changes[i].approved
        /\ report'.summary.applicability_changes_approved
             >= report.summary.applicability_changes_approved ]_vars

\* what the code does: a run of merge-decisions that writes the report
\* leaves the keys and the verification decisions as they are and sets
\* approved back to null in the entry of every proposed change it merges
C27_RemergeResetsApproval ==
  [][ (last'.op = "merge" /\ last'.wrote_report) =>
        /\ VdsOf(report') = VdsOf(report)
        /\ Len(report'.applicability_changes)
             = Len(report.applicability_changes)
        /\ \A i \in DOMAIN report'.applicability_changes :
             /\ ChangeKey(report'.applicability_changes[i])
                  = ChangeKey(report.applicability_changes[i])
             /\ report'.applicability_changes[i].approved = NoneV
        /\ report'.summary.applicability_changes_approved = 0 ]_vars

\* the guideline_id sequence of a report
GuidelineIdsOf(r) ==
  [i \in DOMAIN r.guidelines |-> r.guidelines[i].guideline_id]

\* C28: a run of merge-decisions leaves the guideline_id sequence of the
\* report as it is and leaves the verification_decision of every guideline
\* that has no decision among the merged ones as it is; a decision whose
\* guideline is not in the report is skipped and reported, never added; and
\* merged_count + skipped_count is the number of decisions passed in
C28_MergeFrame ==
  [][ last'.op = "merge" =>
        LET loaded == load_decision_files(dir, last'.schema, last'.validate)
            D == loaded.valid_decisions
            ran == /\ ~(loaded.errors_by_file # <<>> /\ last'.validate)
                   /\ D # <<>>
            absent(d) == \A i \in DOMAIN report.guidelines :
                            report.guidelines[i].guideline_id # d.guideline_id
        IN /\ GuidelineIdsOf(report') = GuidelineIdsOf(report)
           /\ \A i \in DOMAIN report.guidelines :
                ( ~ran \/ \A k \in DOMAIN D :
                            D[k].guideline_id
                              # report.guidelines[i].guideline_id ) =>
                  report'.guidelines[i].verification_decision
                    = report.guidelines[i].verification_decision
           /\ ran =>
                /\ last'.skipped_guidelines
                     = [ k \in DOMAIN SelectSeq(D, absent) |->
                           SelectSeq(D, absent)[k].guideline_id ]
                /\ last'.merged_count + Len(last'.skipped_guidelines)
                     = Len(D) ]_vars

\* a run of merge-decisions merged one decision, skipped the decision of a
\* guideline that is not in the report, and left a guideline without a
\* decision file as it was
C28_Witness ==
  /\ last.op = "merge"
  /\ last.wrote_report
  /\ last.merged_count = 1
  /\ last.skipped_guidelines = <<G3>>
  /\ \E i \in DOMAIN report.guidelines :
       report.guidelines[i].verification_decision = Null

\* fls_[A-Za-z0-9]{10,14}
WellFormedFlsId(id) ==
  /\ fls_id_pattern(id)
  /\ Len(id) - Len(FlsPrefix) >= 10
  /\ Len(id) - Len(FlsPrefix) <= 14

BadMatch(match) ==
  ~WellFormedFlsId(match.fls_id) \/ EmptyReason(match.reason)

\* C19 as claimed: a decision file with an accepted match whose fls_id does
\* not match fls_[A-Za-z0-9]{10,14} or whose reason is empty or blank is never
\* merged: no verification_decision of the report carries such a match (the
\* in-place mode of record-decision is not part of SpecMatches, so merge is
\* the only writer of the report).
C19_BadMatchNeverMerged ==
  \A i \in DOMAIN report.guidelines :
     LET vd == report.guidelines[i].verification_decision
     IN vd # Null =>
          \A k \in DOMAIN vd.accepted_matches : ~BadMatch(vd.accepted_matches[k])

\* what the code does keep out of the report: a file that validate-decisions
\* passes has no accepted match whose id fails ^fls_[a-zA-Z0-9]+$ or whose
\* reason is empty or blank
C19_ValidateDecisionsChecks ==
  last.op = "validate_dir" =>
    \A f \in FileNames :
       ( /\ dir[f].kind = "json"
         /\ \E k \in DOMAIN dir[f].accepted_matches :
               \/ ~fls_id_pattern(dir[f].accepted_matches[k].fls_id)
               \/ EmptyReason(dir[f].accepted_matches[k].reason) )
       => \E e \in DOMAIN last.errors_by_file : last.errors_by_file[e].file = f

-----------------------------------------------------------------------------
(* Outlier analysis: data *)

\* bound on the number of --fls-removal-detail (and of --fls-addition-detail)
\* arguments of one run
MaxDetails == 1

\* number of runs of review-outliers in one behaviour
MaxReviews == 2

\* the order in which the tools visit the contexts
Contexts == <<"all_rust", "safe_rust">>

ContextSet == {"all_rust", "safe_rust"}

\* --context / the context part of a detail argument
VALID_CONTEXTS == {"all_rust", "safe_rust", "both"}

FlsIds == {"fls_a"}

FlagsDomain ==
  [ rationale_type_changed : BOOLEAN, batch_pattern_outlier : BOOLEAN,
    fls_removed : BOOLEAN, fls_added : BOOLEAN,
    applicability_differs_from_add6 : BOOLEAN,
    adjusted_category_differs_from_add6 : BOOLEAN,
    specificity_decreased : BOOLEAN ]

\* fls_removed / fls_added of one context: differences of two sets of ids
ContextComparisons ==
  { c \in [fls_removed : SUBSET FlsIds, fls_added : SUBSET FlsIds] :
      c.fls_removed \cap c.fls_added = {} }

\* ids removed ("removal") or added ("addition") in one context
IdsOf(comparison, ctx, kind) ==
  IF kind = "removal" THEN comparison[ctx].fls_removed
  ELSE comparison[ctx].fls_added

\* all_removed_ids / all_added_ids
AllIds(comparison, kind) ==
  UNION {IdsOf(comparison, ctx, kind) : ctx \in ContextSet}

\* the flags fls_removed and fls_added, aggregated across both contexts
compute_flags(flags, comparison) ==
  [ flags EXCEPT !.fls_removed = AllIds(comparison, "removal") # {},
                 !.fls_added = AllIds(comparison, "addition") # {} ]

\* the comparison data of one guideline as extract-comparison-data leaves it;
\* the flags other than fls_removed and fls_added are independent inputs
CmpDomain ==
  { [flags |-> compute_flags(f, c), comparison |-> c] :
      f \in { g \in FlagsDomain : ~g.fls_removed /\ ~g.fls_added },
      c \in [ContextSet -> ContextComparisons] }

\* choices of the verdict arguments (one value stands for all of them)
Verdicts == {"appropriate"}

\* parse_fls_detail: fls_id:context:justification (the text is left out)
Details == [fls_id : FlsIds, context : VALID_CONTEXTS]

DetailLists == {S \in SUBSET Details : Cardinality(S) <= MaxDetails}

VerdictNames ==
  { "categorization", "fls_removals", "fls_additions", "add6_divergence",
    "specificity" }

\* the author-supplied arguments of record-outlier-analysis
LlmArgs ==
  [ verdict : [VerdictNames -> Verdicts \cup {NoneV}],
    fls_removal_detail : DetailLists,
    fls_addition_detail : DetailLists ]

-----------------------------------------------------------------------------
(* record-outlier-analysis *)

\* the verdict checks of main() of analysis/record.py, in the order of the code
MissingVerdicts(flags, verdict) ==
  (IF /\ (flags.rationale_type_changed \/ flags.batch_pattern_outlier)
      /\ verdict["categorization"] = NoneV
   THEN {"categorization"} ELSE {})
  \cup
  (IF flags.fls_removed /\ verdict["fls_removals"] = NoneV
   THEN {"fls_removals"} ELSE {})
  \cup
  (IF flags.fls_added /\ verdict["fls_additions"] = NoneV
   THEN {"fls_additions"} ELSE {})
  \cup
  (IF /\ ( \/ flags.applicability_differs_from_add6
           \/ flags.adjusted_category_differs_from_add6 )
      /\ verdict["add6_divergence"] = NoneV
   THEN {"add6_divergence"} ELSE {})
  \cup
  (IF flags.specificity_decreased /\ verdict["specificity"] = NoneV
   THEN {"specificity"} ELSE {})

\* all_removed_ids - provided_removal_ids (resp. added, addition)
MissingDetails(comparison, kind, details) ==
  AllIds(comparison, kind) \ {d.fls_id : d \in details}

\* validation_errors with only its first entry: the run stops at the first
\* missing item
validation_errors_first(data, args) ==
  LET mv == MissingVerdicts(data.flags, args.verdict)
      mr == MissingDetails(data.comparison, "removal", args.fls_removal_detail)
      ma == MissingDetails(data.comparison, "addition", args.fls_addition_detail)
      first == IF mv = {} THEN {}
               ELSE {CHOOSE v \in mv : TRUE}
  IN [ missing_verdicts |-> first,
       missing_removal_details |-> IF mv = {} THEN mr ELSE {},
       missing_addition_details |-> IF mv = {} /\ mr = {} THEN ma ELSE {} ]

\* validation_errors of main() of analysis/record.py
validation_errors(data, args) ==
  [ missing_verdicts |-> MissingVerdicts(data.flags, args.verdict),
    missing_removal_details |->
      MissingDetails(data.comparison, "removal", args.fls_removal_detail),
    missing_addition_details |->
      MissingDetails(data.comparison, "addition", args.fls_addition_detail) ]

NoErrors ==
  [ missing_verdicts |-> {}, missing_removal_details |-> {},
    missing_addition_details |-> {} ]

\* the contexts list of an id, in the order of the loop over the contexts
ContextsOf(comparison, kind, id) ==
  SelectSeq(Contexts, LAMBDA ctx : id \in IdsOf(comparison, ctx, kind))

\* the per_id loop without its else branch: an id keeps the one context in
\* which the loop met it first
PerIdNoAppend(comparison, kind, details) ==
  [ id \in AllIds(comparison, kind) |->
      LET contexts == SubSeq(ContextsOf(comparison, kind, id), 1, 1)
      IN [ contexts |-> contexts,
           decisions |->
             { ctx \in Range(contexts) :
                 \E d \in details :
                   /\ d.fls_id = id
                   /\ d.context \in {"both", ctx} } ] ]

\* fls_removals_per_id / fls_additions_per_id of create_outlier_analysis;
\* decisions is the key set of removal_decisions / addition_decisions
PerId(comparison, kind, details) ==
  [ id \in AllIds(comparison, kind) |->
      LET contexts == ContextsOf(comparison, kind, id)
      IN [ contexts |-> contexts,
           decisions |->
             { ctx \in Range(contexts) :
                 \E d \in details :
                   /\ d.fls_id = id
                   /\ d.context \in {"both", ctx} } ] ]

\* the WARNING lines of create_outlier_analysis
DetailWarnings(comparison, kind, details) ==
  { d \in details :
      /\ d.fls_id \in AllIds(comparison, kind)
      /\ d.context # "both"
      /\ d.context \notin Range(ContextsOf(comparison, kind, d.fls_id)) }

\* an aspect with a per_id structure, None without a verdict
FlsAspect(verdict, comparison, kind, details) ==
  IF verdict = NoneV THEN Null
  ELSE [ verdict |-> verdict,
         per_id |-> IF AllIds(comparison, kind) # {}
                    THEN PerId(comparison, kind, details)
                    ELSE Null ]

Aspect(verdict) == IF verdict = NoneV THEN Null ELSE [verdict |-> verdict]

create_outlier_analysis(data, args) ==
  [ kind |-> "analysis",
    flags |-> data.flags,
    comparison |-> data.comparison,
    llm_analysis |->
      [ categorization |-> Aspect(args.verdict["categorization"]),
        fls_removals |->
          FlsAspect(args.verdict["fls_removals"], data.comparison,
                    "removal", args.fls_removal_detail),
        fls_additions |->
          FlsAspect(args.verdict["fls_additions"], data.comparison,
                    "addition", args.fls_addition_detail),
        add6_divergence |-> Aspect(args.verdict["add6_divergence"]),
        specificity |-> Aspect(args.verdict["specificity"]) ],
    human_review |-> Null ]

\* main() of analysis/record.py
RecordOutlierAnalysis(force, dry_run) ==
  LET existing == analysis # NoAnalysis
      blocked == existing /\ ~force
      errs == validation_errors(cmp, llm)
      valid == errs = NoErrors
      writes == ~blocked /\ valid /\ ~dry_run
  IN /\ analysis' = IF writes THEN create_outlier_analysis(cmp, llm)
                    ELSE analysis
     /\ res' = [ op |-> "record",
                 outcome |-> IF blocked THEN "exists"
                             ELSE IF ~valid THEN "invalid"
                             ELSE IF dry_run THEN "dry_run"
                             ELSE "saved",
                 errors |-> IF blocked THEN NoErrors ELSE errs,
                 warnings |->
                   IF blocked \/ ~valid
                   THEN [removals |-> {}, additions |-> {}]
                   ELSE [ removals |->
                            DetailWarnings(cmp.comparison, "removal",
                                           llm.fls_removal_detail),
                          additions |->
                            DetailWarnings(cmp.comparison, "addition",
                                           llm.fls_addition_detail) ] ]
     /\ UNCHANGED <<cmp, llm, mergeVars, review_state, extractVars, workers>>

InitRecord ==
  /\ cmp \in CmpDomain
  /\ llm \in LlmArgs
  /\ analysis = NoAnalysis
  /\ res = NoRes
  /\ review_state = EmptyReviewState
  /\ NoExtract
  /\ NoWorkers
  /\ report = EmptyReport
  /\ dir = [f \in FileNames |-> Absent]
  /\ inflight = Null
  /\ last = NoRun
  /\ ops = 0

NextRecord ==
  \E force \in BOOLEAN, dry_run \in BOOLEAN :
    RecordOutlierAnalysis(force, dry_run)

SpecRecord == InitRecord /\ [][NextRecord]_vars

-----------------------------------------------------------------------------
(* Properties of record-outlier-analysis *)

DetailsOf(args, kind) ==
  IF kind = "removal" THEN args.fls_removal_detail
  ELSE args.fls_addition_detail

\* the pairs (fls_id, context) of the comparison without a justification
\* for that same context
MissingPairs(comparison, kind, details) ==
  { p \in FlsIds \X ContextSet :
      /\ p[1] \in IdsOf(comparison, p[2], kind)
      /\ ~\E d \in details :
            d.fls_id = p[1] /\ d.context \in {"both", p[2]} }

ErrorIds(errors, kind) ==
  IF kind = "removal" THEN errors.missing_removal_details
  ELSE errors.missing_addition_details

\* C7: an analysis is persisted only if every removed (added) fls_id of a
\* context has a removal (addition) justification for that context, and a
\* run with a missing pair fails with an error that names the ids of the
\* missing pairs.
C7_CompletenessGate ==
  \A kind \in {"removal", "addition"} :
    LET missing == MissingPairs(cmp.comparison, kind, DetailsOf(llm, kind))
    IN /\ (res.op = "record" /\ res.outcome = "saved") => missing = {}
       /\ (res.op = "record" /\ res.outcome = "invalid") =>
            {p[1] : p \in missing} \subseteq ErrorIds(res.errors, kind)

\* the verdicts the flags require
RequiredVerdicts(flags) ==
  { v \in VerdictNames :
      CASE v = "categorization" ->
             flags.rationale_type_changed \/ flags.batch_pattern_outlier
        [] v = "fls_removals" -> flags.fls_removed
        [] v = "fls_additions" -> flags.fls_added
        [] v = "add6_divergence" ->
             \/ flags.applicability_differs_from_add6
             \/ flags.adjusted_category_differs_from_add6
        [] v = "specificity" -> flags.specificity_decreased }

SuppliedVerdicts(args) == {v \in VerdictNames : args.verdict[v] # NoneV}

\* the ids of the comparison that no detail argument mentions
UncoveredIds(comparison, kind, details) ==
  { id \in FlsIds :
      /\ \E ctx \in ContextSet : id \in IdsOf(comparison, ctx, kind)
      /\ \A d \in details : d.fls_id # id }

-----------------------------------------------------------------------------
(* review-outliers *)

\* an empty decisions dict
NoDecisions == [c \in {} |-> NoneV]

\* an empty fls_removals / fls_additions dict
NoItems == [id \in {} |-> Null]

\* an aspect decision is its "decision" value, None for a missing dict; an
\* FLS item is its contexts list and its decisions dict (context -> decision)
create_human_review_section ==
  [ overall_status |-> "pending",
    categorization |-> NoneV,
    fls_removals |-> NoItems,
    fls_additions |-> NoItems,
    add6_divergence |-> NoneV,
    specificity |-> NoneV,
    notes |-> NoneV ]

\* pending_aspects of the items of one dict with the given ids
RECURSIVE PendingIn(_, _)
PendingIn(fls_dict, ids) ==
  IF ids = {} THEN 0
  ELSE LET id == CHOOSE x \in ids : TRUE
           item == fls_dict[id]
       IN Cardinality({ i \in DOMAIN item.contexts :
                          item.contexts[i] \notin DOMAIN item.decisions })
          + PendingIn(fls_dict, ids \ {id})

\* total_aspects of the items of one dict with the given ids
RECURSIVE TotalIn(_, _)
TotalIn(fls_dict, ids) ==
  IF ids = {} THEN 0
  ELSE LET id == CHOOSE x \in ids : TRUE
       IN Len(fls_dict[id].contexts) + TotalIn(fls_dict, ids \ {id})

\* compute_overall_status that asks for a categorization decision only
\* under rationale_type_changed
compute_overall_status_one_flag(human_review, flags) ==
  LET cat == flags.rationale_type_changed
      add6 == \/ flags.applicability_differs_from_add6
              \/ flags.adjusted_category_differs_from_add6
      spec == flags.specificity_decreased
      total_aspects ==
        (IF cat THEN 1 ELSE 0)
        + TotalIn(human_review.fls_removals, DOMAIN human_review.fls_removals)
        + TotalIn(human_review.fls_additions, DOMAIN human_review.fls_additions)
        + (IF add6 THEN 1 ELSE 0)
        + (IF spec THEN 1 ELSE 0)
      pending_aspects ==
        (IF cat /\ human_review.categorization = NoneV THEN 1 ELSE 0)
        + PendingIn(human_review.fls_removals,
                    DOMAIN human_review.fls_removals)
        + PendingIn(human_review.fls_additions,
                    DOMAIN human_review.fls_additions)
        + (IF add6 /\ human_review.add6_divergence = NoneV THEN 1 ELSE 0)
        + (IF spec /\ human_review.specificity = NoneV THEN 1 ELSE 0)
  IN IF total_aspects = 0 THEN "fully_reviewed"
     ELSE IF pending_aspects = 0 THEN "fully_reviewed"
     ELSE IF pending_aspects < total_aspects THEN "partial"
     ELSE "pending"

compute_overall_status(human_review, flags) ==
  LET cat == flags.rationale_type_changed \/ flags.batch_pattern_outlier
      add6 == \/ flags.applicability_differs_from_add6
              \/ flags.adjusted_category_differs_from_add6
      spec == flags.specificity_decreased
      total_aspects ==
        (IF cat THEN 1 ELSE 0)
        + TotalIn(human_review.fls_removals, DOMAIN human_review.fls_removals)
        + TotalIn(human_review.fls_additions, DOMAIN human_review.fls_additions)
        + (IF add6 THEN 1 ELSE 0)
        + (IF spec THEN 1 ELSE 0)
      pending_aspects ==
        (IF cat /\ human_review.categorization = NoneV THEN 1 ELSE 0)
        + PendingIn(human_review.fls_removals,
                    DOMAIN human_review.fls_removals)
        + PendingIn(human_review.fls_additions,
                    DOMAIN human_review.fls_additions)
        + (IF add6 /\ human_review.add6_divergence = NoneV THEN 1 ELSE 0)
        + (IF spec /\ human_review.specificity = NoneV THEN 1 ELSE 0)
  IN IF total_aspects = 0 THEN "fully_reviewed"
     ELSE IF pending_aspects = 0 THEN "fully_reviewed"
     ELSE IF pending_aspects < total_aspects THEN "partial"
     ELSE "pending"

\* llm_analysis.get(aspect, {}).get("per_id", {}).items() raises when the
\* aspect or its per_id is None
PerIdRaises(llm_analysis, aspect) ==
  IF llm_analysis[aspect] = Null THEN TRUE
  ELSE llm_analysis[aspect].per_id = Null

InitializeRaises(llm_analysis) ==
  \/ PerIdRaises(llm_analysis, "fls_removals")
  \/ PerIdRaises(llm_analysis, "fls_additions")

AddContext(contexts, ctx) ==
  IF ctx \in Range(contexts) THEN contexts ELSE Append(contexts, ctx)

\* one of the two halves of initialize_fls_structures
InitializeItems(fls_dict, per_id, comparison, kind) ==
  LET ids == DOMAIN fls_dict \cup DOMAIN per_id \cup AllIds(comparison, kind)
      Start(id) ==
        IF id \in DOMAIN fls_dict THEN fls_dict[id]
        ELSE IF id \in DOMAIN per_id
        THEN [contexts |-> per_id[id].contexts, decisions |-> NoDecisions]
        ELSE [contexts |-> <<>>, decisions |-> NoDecisions]
      Visit(item, id, ctx) ==
        IF id \in IdsOf(comparison, ctx, kind)
        THEN [item EXCEPT !.contexts = AddContext(@, ctx)]
        ELSE item
  IN [ id \in ids |->
         Visit(Visit(Start(id), id, Contexts[1]), id, Contexts[2]) ]

\* initialize_fls_structures, for an llm_analysis that does not make it raise
initialize_fls_structures(human_review, llm_analysis, comparison) ==
  [ human_review EXCEPT
      !.fls_removals =
         InitializeItems(@, llm_analysis.fls_removals.per_id,
                         comparison, "removal"),
      !.fls_additions =
         InitializeItems(@, llm_analysis.fls_additions.per_id,
                         comparison, "addition") ]

SetDecisions(item, ctxs, decision) ==
  [ item EXCEPT !.decisions =
      [ c \in DOMAIN item.decisions \cup ctxs |->
          IF c \in ctxs THEN decision ELSE item.decisions[c] ] ]

\* apply_fls_decision: the return value and the dict it leaves
apply_fls_decision(fls_dict, fls_id, context, decision) ==
  IF fls_id \notin DOMAIN fls_dict THEN [ok |-> FALSE, fls_dict |-> fls_dict]
  ELSE LET contexts == fls_dict[fls_id].contexts
       IN IF context = "both"
          THEN [ ok |-> TRUE,
                 fls_dict |->
                   [fls_dict EXCEPT ![fls_id] =
                      SetDecisions(@, Range(contexts), decision)] ]
          ELSE IF context \in Range(contexts)
          THEN [ ok |-> TRUE,
                 fls_dict |->
                   [fls_dict EXCEPT ![fls_id] =
                      SetDecisions(@, {context}, decision)] ]
          ELSE [ok |-> FALSE, fls_dict |-> fls_dict]

AcceptItems(fls_dict) ==
  [ id \in DOMAIN fls_dict |->
      SetDecisions(fls_dict[id], Range(fls_dict[id].contexts), "accept") ]

\* _accept_all
accept_all(human_review, flags) ==
  [ human_review EXCEPT
      !.categorization =
         IF flags.rationale_type_changed \/ flags.batch_pattern_outlier
         THEN "accept" ELSE @,
      !.fls_removals = AcceptItems(@),
      !.fls_additions = AcceptItems(@),
      !.specificity = IF flags.specificity_decreased THEN "accept" ELSE @,
      !.add6_divergence =
         IF \/ flags.applicability_differs_from_add6
            \/ flags.adjusted_category_differs_from_add6
         THEN "accept" ELSE @ ]

\* the options of a run of review-outliers for one guideline
NoOptions ==
  [ accept_all |-> FALSE,
    accept_categorization |-> FALSE, reject_categorization |-> FALSE,
    accept_removal |-> {}, reject_removal |-> {},
    accept_addition |-> {}, reject_addition |-> {},
    accept_add6_divergence |-> FALSE, reject_add6_divergence |-> FALSE,
    accept_specificity |-> FALSE, reject_specificity |-> FALSE,
    notes |-> FALSE, context |-> NoneV, dry_run |-> FALSE ]

\* one for loop over the ids of an --accept-... / --reject-... option
RECURSIVE ApplyEach(_, _, _, _)
ApplyEach(acc, ids, context, decision) ==
  IF ids = {} THEN acc
  ELSE LET id == CHOOSE x \in ids : TRUE
           r == apply_fls_decision(acc.fls_dict, id, context, decision)
       IN ApplyEach([ok |-> acc.ok \/ r.ok, fls_dict |-> r.fls_dict],
                    ids \ {id}, context, decision)

\* CLI-flag mode of main() of review.py from initialize_fls_structures to
\* the last option: the human_review it leaves and changes_made
ProcessOptions(hr0, flags, args) ==
  LET h1 == IF args.accept_all THEN accept_all(hr0, flags) ELSE hr0
      h2 == IF args.accept_categorization
            THEN [h1 EXCEPT !.categorization = "accept"] ELSE h1
      h3 == IF args.reject_categorization
            THEN [h2 EXCEPT !.categorization = "reject"] ELSE h2
      r1 == ApplyEach([ok |-> FALSE, fls_dict |-> h3.fls_removals],
                      args.accept_removal, args.context, "accept")
      r2 == ApplyEach([ok |-> FALSE, fls_dict |-> r1.fls_dict],
                      args.reject_removal, args.context, "reject")
      a1 == ApplyEach([ok |-> FALSE, fls_dict |-> h3.fls_additions],
                      args.accept_addition, args.context, "accept")
      a2 == ApplyEach([ok |-> FALSE, fls_dict |-> a1.fls_dict],
                      args.reject_addition, args.context, "reject")
      h4 == [h3 EXCEPT !.fls_removals = r2.fls_dict,
                       !.fls_additions = a2.fls_dict]
      h5 == IF args.accept_add6_divergence
            THEN [h4 EXCEPT !.add6_divergence = "accept"] ELSE h4
      h6 == IF args.reject_add6_divergence
            THEN [h5 EXCEPT !.add6_divergence = "reject"] ELSE h5
      h7 == IF args.accept_specificity
            THEN [h6 EXCEPT !.specificity = "accept"] ELSE h6
      h8 == IF args.reject_specificity
            THEN [h7 EXCEPT !.specificity = "reject"] ELSE h7
      h9 == IF args.notes THEN [h8 EXCEPT !.notes = "notes"] ELSE h8
  IN [ human_review |-> h9,
       changes_made |->
         \/ args.accept_all
         \/ args.accept_categorization \/ args.reject_categorization
         \/ r1.ok \/ r2.ok \/ a1.ok \/ a2.ok
         \/ args.accept_add6_divergence \/ args.reject_add6_divergence
         \/ args.accept_specificity \/ args.reject_specificity
         \/ args.notes ]

\* a run of review-outliers in CLI-flag mode that leaves overall_status as
\* it finds it
ReviewRunKeepStatus(a, args) ==
  LET fls_operations ==
        \/ args.accept_removal # {} \/ args.reject_removal # {}
        \/ args.accept_addition # {} \/ args.reject_addition # {}
      hr0 == IF a.human_review = Null THEN create_human_review_section
             ELSE a.human_review
      hr1 == initialize_fls_structures(hr0, a.llm_analysis, a.comparison)
      p == ProcessOptions(hr1, a.flags, args)
  IN IF fls_operations /\ args.context = NoneV
     THEN [outcome |-> "context_required", analysis |-> a]
     ELSE IF a = NoAnalysis
     THEN [outcome |-> "no_analysis", analysis |-> a]
     ELSE IF InitializeRaises(a.llm_analysis)
     THEN [outcome |-> "raised", analysis |-> a]
     ELSE IF ~p.changes_made
     THEN [outcome |-> "no_changes", analysis |-> a]
     ELSE IF args.dry_run
     THEN [outcome |-> "dry_run", analysis |-> a]
     ELSE [ outcome |-> "saved",
            analysis |-> [a EXCEPT !.human_review = p.human_review] ]

\* the outcome of a run of review-outliers in CLI-flag mode and the
\* analysis it would save
ReviewRun(a, args) ==
  LET fls_operations ==
        \/ args.accept_removal # {} \/ args.reject_removal # {}
        \/ args.accept_addition # {} \/ args.reject_addition # {}
      hr0 == IF a.human_review = Null THEN create_human_review_section
             ELSE a.human_review
      hr1 == initialize_fls_structures(hr0, a.llm_analysis, a.comparison)
      p == ProcessOptions(hr1, a.flags, args)
      hr2 == [p.human_review EXCEPT
                !.overall_status = compute_overall_status(p.human_review, a.flags)]
  IN IF fls_operations /\ args.context = NoneV
     THEN [outcome |-> "context_required", analysis |-> a]
     ELSE IF a = NoAnalysis
     THEN [outcome |-> "no_analysis", analysis |-> a]
     ELSE IF InitializeRaises(a.llm_analysis)
     THEN [outcome |-> "raised", analysis |-> a]
     ELSE IF ~p.changes_made
     THEN [outcome |-> "no_changes", analysis |-> a]
     ELSE IF args.dry_run
     THEN [outcome |-> "dry_run", analysis |-> a]
     ELSE [outcome |-> "saved", analysis |-> [a EXCEPT !.human_review = hr2]]

\* the summary of review_state.json over the analysis files: the number of
\* files and the number of them that are fully reviewed
recompute_review_summary(a) ==
  [ total |-> IF a = NoAnalysis THEN 0 ELSE 1,
    fully_reviewed |->
      IF a = NoAnalysis THEN 0
      ELSE IF a.human_review = Null THEN 0
      ELSE IF a.human_review.overall_status = "fully_reviewed" THEN 1
      ELSE 0 ]

\* main() of review.py, CLI-flag mode for a single guideline
ReviewOutliers(args) ==
  \E r \in {ReviewRun(analysis, args)} :
     /\ ops < MaxReviews
     /\ analysis' = r.analysis
     /\ res' = [ op |-> "review", outcome |-> r.outcome,
                 accept_all |-> args.accept_all ]
     /\ review_state' =
          IF r.outcome = "saved"
          THEN [review_state EXCEPT
                  !.summary = recompute_review_summary(r.analysis)]
          ELSE review_state
     /\ ops' = ops + 1
     /\ UNCHANGED <<cmp, llm, report, dir, inflight, last, extractVars, workers>>

BoolOptions ==
  { "accept_all", "accept_categorization", "reject_categorization",
    "accept_add6_divergence", "reject_add6_divergence",
    "accept_specificity", "reject_specificity", "notes" }

ListOptions ==
  {"accept_removal", "reject_removal", "accept_addition", "reject_addition"}

\* command lines with at most one option besides --dry-run; --context is
\* given only with an FLS option, which alone reads it
CommandLines ==
  LET one == {NoOptions}
             \cup {[NoOptions EXCEPT ![o] = TRUE] : o \in BoolOptions}
             \cup { [NoOptions EXCEPT ![o] = {id}, !.context = c] :
                      o \in ListOptions, id \in FlsIds,
                      c \in VALID_CONTEXTS \cup {NoneV} }
  IN {[a EXCEPT !.dry_run = d] : a \in one, d \in BOOLEAN}

\* the arguments of an analysis that passes the gate of
\* record-outlier-analysis whatever the two FLS verdicts are: the verdicts
\* that review-outliers never reads are supplied iff required, every
\* removed and added id has a detail for both contexts
ReviewArgs(data) ==
  { [ verdict |->
        [ v \in VerdictNames |->
            IF v = "fls_removals" THEN r
            ELSE IF v = "fls_additions" THEN a
            ELSE IF v \in MissingVerdicts(data.flags,
                                          [w \in VerdictNames |-> NoneV])
            THEN "appropriate" ELSE NoneV ],
      fls_removal_detail |->
        { [fls_id |-> id, context |-> "both"] :
            id \in AllIds(data.comparison, "removal") },
      fls_addition_detail |->
        { [fls_id |-> id, context |-> "both"] :
            id \in AllIds(data.comparison, "addition") } ] :
      r \in Verdicts \cup {NoneV}, a \in Verdicts \cup {NoneV} }

InitReview ==
  /\ cmp \in CmpDomain
  /\ llm \in ReviewArgs(cmp)
  /\ analysis = NoAnalysis
  /\ res = NoRes
  /\ review_state = EmptyReviewState
  /\ NoExtract
  /\ NoWorkers
  /\ report = EmptyReport
  /\ dir = [f \in FileNames |-> Absent]
  /\ inflight = Null
  /\ last = NoRun
  /\ ops = 0

NextReview ==
  \/ \E force \in BOOLEAN, dry_run \in BOOLEAN :
       RecordOutlierAnalysis(force, dry_run)
  \/ \E args \in CommandLines : ReviewOutliers(args)

SpecReview == InitReview /\ [][NextReview]_vars

-----------------------------------------------------------------------------
(* review-outliers, interactive mode; reset-review; bulk rules *)

\* the prompts of _review_fls_removals / _review_fls_additions: one per
\* item and context of its contexts list
Slots(fls_dict) ==
  UNION { {<<id, c>> : c \in Range(fls_dict[id].contexts)} :
          id \in DOMAIN fls_dict }

\* the answers to the prompts of one FLS dict: "keep" is the answer no to
\* "Change decision?", which is asked only for a slot with a decision; yes
\* and no are the answers to "Accept ... ?"
SlotAnswers(fls_dict, asked) ==
  LET slots == IF asked THEN Slots(fls_dict) ELSE {}
  IN { f \in [slots -> {"keep", "yes", "no"}] :
         \A s \in slots :
           f[s] = "keep" => s[2] \in DOMAIN fls_dict[s[1]].decisions }

AspectAnswers(asked) == IF asked THEN {"skip", "yes", "no"} ELSE {"skip"}

\* the answers of a detailed review that is not quit
DetailAnswers(human_review, flags) ==
  [ categorization :
      AspectAnswers(flags.rationale_type_changed \/ flags.batch_pattern_outlier),
    removals : SlotAnswers(human_review.fls_removals, flags.fls_removed),
    additions : SlotAnswers(human_review.fls_additions, flags.fls_added),
    specificity : AspectAnswers(flags.specificity_decreased),
    add6_divergence :
      AspectAnswers(\/ flags.applicability_differs_from_add6
                    \/ flags.adjusted_category_differs_from_add6) ]

NoDetail ==
  [ categorization |-> "skip", removals |-> <<>>, additions |-> <<>>,
    specificity |-> "skip", add6_divergence |-> "skip" ]

\* some prompt of the detailed review is asked
DetailPrompts(human_review, flags) ==
  \/ flags.rationale_type_changed \/ flags.batch_pattern_outlier
  \/ flags.fls_removed /\ Slots(human_review.fls_removals) # {}
  \/ flags.fls_added /\ Slots(human_review.fls_additions) # {}
  \/ flags.specificity_decreased
  \/ flags.applicability_differs_from_add6
  \/ flags.adjusted_category_differs_from_add6

\* the section interactive_review_guideline starts from
InteractiveStart(a) ==
  initialize_fls_structures(
    IF a.human_review = Null THEN create_human_review_section
    ELSE a.human_review,
    a.llm_analysis, a.comparison)

\* the ways through the prompts of interactive_review_guideline: the answer
\* quit / no to "Re-review this guideline?" (asked iff the guideline is
\* fully reviewed), the answers quit / all to "Accept all LLM
\* recommendations?", a quit at a prompt of the detailed review, or a
\* detailed review with its answers
InteractiveAnswers(a) ==
  IF a = NoAnalysis THEN {[path |-> "none", detail |-> NoDetail]}
  ELSE IF InitializeRaises(a.llm_analysis)
  THEN {[path |-> "none", detail |-> NoDetail]}
  ELSE LET hr == InteractiveStart(a)
           paths ==
             (IF compute_overall_status(hr, a.flags) = "fully_reviewed"
              THEN {"rereview_quit", "rereview_no"} ELSE {})
             \cup {"quit", "all"}
             \cup (IF DetailPrompts(hr, a.flags) THEN {"detail_quit"}
                   ELSE {})
       IN {[path |-> p, detail |-> NoDetail] : p \in paths}
          \cup {[path |-> "detail", detail |-> d] :
                  d \in DetailAnswers(hr, a.flags)}

\* the prompt of a singleton aspect if the answer skip cleared the decision
ApplyAspectClearOnSkip(old, answer) ==
  IF answer = "yes" THEN "accept"
  ELSE IF answer = "no" THEN "reject"
  ELSE NoneV

\* the prompt of a singleton aspect: skip leaves the decision as it is
ApplyAspect(old, answer) ==
  IF answer = "yes" THEN "accept"
  ELSE IF answer = "no" THEN "reject"
  ELSE old

\* the decisions the answers leave in one FLS dict
ApplySlots(fls_dict, f) ==
  [ id \in DOMAIN fls_dict |->
      LET item == fls_dict[id]
          answered == { c \in Range(item.contexts) :
                          /\ <<id, c>> \in DOMAIN f
                          /\ f[<<id, c>>] # "keep" }
      IN [ item EXCEPT !.decisions =
             [ c \in DOMAIN item.decisions \cup answered |->
                 IF c \in answered
                 THEN (IF f[<<id, c>>] = "yes" THEN "accept" ELSE "reject")
                 ELSE item.decisions[c] ] ] ]

\* _review_categorization, _review_fls_removals, _review_fls_additions,
\* _review_specificity and _review_add6_divergence, none of them quit
DetailedReview(human_review, d) ==
  [ human_review EXCEPT
      !.categorization = ApplyAspect(@, d.categorization),
      !.fls_removals = ApplySlots(@, d.removals),
      !.fls_additions = ApplySlots(@, d.additions),
      !.specificity = ApplyAspect(@, d.specificity),
      !.add6_divergence = ApplyAspect(@, d.add6_divergence) ]

\* interactive_review_guideline: the outcome, the analysis on file after it,
\* and whether the user confirmed the re-review of a fully reviewed guideline
InteractiveRun(a, ans, dry_run) ==
  IF a = NoAnalysis
  THEN [outcome |-> "no_analysis", analysis |-> a, confirmed |-> FALSE]
  ELSE IF InitializeRaises(a.llm_analysis)
  THEN [outcome |-> "raised", analysis |-> a, confirmed |-> FALSE]
  ELSE
    LET hr == InteractiveStart(a)
        current_status == compute_overall_status(hr, a.flags)
        confirmed == /\ current_status = "fully_reviewed"
                     /\ ans.path \notin {"rereview_quit", "rereview_no"}
        all == [accept_all(hr, a.flags) EXCEPT
                  !.overall_status = "fully_reviewed"]
        detailed == DetailedReview(hr, ans.detail)
        reviewed == [detailed EXCEPT
                       !.overall_status =
                          compute_overall_status(detailed, a.flags)]
    IN CASE ans.path \in {"rereview_quit", "quit", "detail_quit"} ->
              [outcome |-> "quit", analysis |-> a, confirmed |-> confirmed]
         [] ans.path = "rereview_no" ->
              [outcome |-> "declined", analysis |-> a, confirmed |-> FALSE]
         [] ans.path = "all" ->
              [ outcome |-> IF dry_run THEN "dry_run" ELSE "saved",
                analysis |-> IF dry_run THEN a
                             ELSE [a EXCEPT !.human_review = all],
                confirmed |-> confirmed ]
         [] OTHER ->
              [ outcome |-> IF dry_run THEN "dry_run" ELSE "saved",
                analysis |-> IF dry_run THEN a
                             ELSE [a EXCEPT !.human_review = reviewed],
                confirmed |-> confirmed ]

\* review-outliers --guideline G --interactive, or --batch N for the batch
\* of the one guideline (run_interactive_mode, which also recomputes the
\* summary of review_state.json)
InteractiveReview(ans, batch_mode, dry_run) ==
  LET r == InteractiveRun(analysis, ans, dry_run)
      listed == analysis # NoAnalysis
  IN /\ ops < MaxReviews
     /\ analysis' = r.analysis
     /\ res' = [ op |-> "interactive", outcome |-> r.outcome,
                 confirmed |-> r.confirmed ]
     /\ review_state' =
          IF batch_mode /\ listed /\ ~dry_run
          THEN [review_state EXCEPT
                  !.summary = recompute_review_summary(r.analysis)]
          ELSE review_state
     /\ ops' = ops + 1
     /\ UNCHANGED <<cmp, llm, report, dir, inflight, last, extractVars, workers>>

\* reset_guideline: TRUE iff the file was (or would be) modified
reset_guideline(a, dry_run) ==
  IF a = NoAnalysis THEN [modified |-> FALSE, analysis |-> a]
  ELSE IF a.human_review = Null THEN [modified |-> FALSE, analysis |-> a]
  ELSE IF dry_run THEN [modified |-> TRUE, analysis |-> a]
  ELSE [modified |-> TRUE, analysis |-> [a EXCEPT !.human_review = Null]]

\* update_review_state: one more entry of reset_log
update_review_state(state) == [state EXCEPT !.reset_log = @ + 1]

\* main() of reset_review.py for --guideline G
ResetReview(dry_run) ==
  LET r == reset_guideline(analysis, dry_run)
  IN /\ ops < MaxReviews
     /\ analysis' = r.analysis
     /\ res' = [ op |-> "reset_review",
                 outcome |-> IF ~r.modified THEN "nothing"
                             ELSE IF dry_run THEN "dry_run" ELSE "reset" ]
     /\ review_state' =
          IF r.modified /\ ~dry_run THEN update_review_state(review_state)
          ELSE review_state
     /\ ops' = ops + 1
     /\ UNCHANGED <<cmp, llm, report, dir, inflight, last, extractVars, workers>>

\* the comparison data of the guidelines of a session: the FLS flags and
\* two of the flags of the singleton aspects take every value
SessionData ==
  { d \in CmpDomain :
      /\ ~d.flags.batch_pattern_outlier
      /\ ~d.flags.applicability_differs_from_add6
      /\ ~d.flags.adjusted_category_differs_from_add6 }

InitSession ==
  /\ cmp \in SessionData
  /\ llm \in ReviewArgs(cmp)
  /\ analysis = NoAnalysis
  /\ res = NoRes
  /\ review_state = EmptyReviewState
  /\ NoExtract
  /\ NoWorkers
  /\ report = EmptyReport
  /\ dir = [f \in FileNames |-> Absent]
  /\ inflight = Null
  /\ last = NoRun
  /\ ops = 0

\* a dry run of the batch mode differs from one of the single guideline
\* mode in its messages only
NextSession ==
  \/ \E force \in BOOLEAN, dry_run \in BOOLEAN :
       RecordOutlierAnalysis(force, dry_run)
  \/ \E args \in CommandLines : ReviewOutliers(args)
  \/ \E ans \in InteractiveAnswers(analysis),
        mode \in {<<FALSE, FALSE>>, <<FALSE, TRUE>>, <<TRUE, FALSE>>} :
       InteractiveReview(ans, mode[1], mode[2])
  \/ \E dry_run \in BOOLEAN : ResetReview(dry_run)

SpecSession == InitSession /\ [][NextSession]_vars

\* the bulk branch of main() of review.py that appends the context(s) to
\* the rule whether or not the rule has them
add_bulk_rule_append(rules, fls_id, ctx, reason) ==
  LET entry == IF fls_id \in DOMAIN rules THEN rules[fls_id]
               ELSE [contexts |-> <<>>, reason |-> NoneV]
      contexts == IF ctx = "both"
                  THEN entry.contexts \o <<"all_rust", "safe_rust">>
                  ELSE Append(entry.contexts, ctx)
      rule == [ contexts |-> contexts,
                reason |-> IF reason # NoneV THEN reason ELSE entry.reason ]
  IN [ id \in DOMAIN rules \cup {fls_id} |->
         IF id = fls_id THEN rule ELSE rules[id] ]

\* one of the two bulk branches of main() of review.py: the rules dict
\* (accept_removals or accept_additions) with the rule for fls_id and ctx
add_bulk_rule(rules, fls_id, ctx, reason) ==
  LET entry == IF fls_id \in DOMAIN rules THEN rules[fls_id]
               ELSE [contexts |-> <<>>, reason |-> NoneV]
      contexts == IF ctx = "both"
                  THEN AddContext(AddContext(entry.contexts, "all_rust"),
                                  "safe_rust")
                  ELSE AddContext(entry.contexts, ctx)
      rule == [ contexts |-> contexts,
                reason |-> IF reason # NoneV THEN reason ELSE entry.reason ]
  IN [ id \in DOMAIN rules \cup {fls_id} |->
         IF id = fls_id THEN rule ELSE rules[id] ]

\* --bulk-accept-removal / --bulk-accept-addition with --context, --reason
\* and --dry-run; at least one of the two bulk options is given
BulkArgs ==
  { a \in [ bulk_accept_removal : FlsIds \cup {NoneV},
            bulk_accept_addition : FlsIds \cup {NoneV},
            context : VALID_CONTEXTS \cup {NoneV},
            reason : {NoneV, "reason"},
            dry_run : BOOLEAN ] :
      a.bulk_accept_removal # NoneV \/ a.bulk_accept_addition # NoneV }

\* the review state the bulk branch of main() builds from the loaded one
bulk_rules_of(state, args) ==
  LET removals ==
        IF args.bulk_accept_removal # NoneV
        THEN add_bulk_rule(state.bulk_rules.accept_removals,
                           args.bulk_accept_removal, args.context, args.reason)
        ELSE state.bulk_rules.accept_removals
      additions ==
        IF args.bulk_accept_addition # NoneV
        THEN add_bulk_rule(state.bulk_rules.accept_additions,
                           args.bulk_accept_addition, args.context,
                           args.reason)
        ELSE state.bulk_rules.accept_additions
  IN [ state EXCEPT !.bulk_rules =
         [accept_removals |-> removals, accept_additions |-> additions] ]

\* main() of review.py with a bulk option
BulkRule(args) ==
  /\ ops < MaxReviews
  /\ review_state' =
       IF args.context = NoneV \/ args.dry_run THEN review_state
       ELSE bulk_rules_of(review_state, args)
  /\ res' = [ op |-> "bulk",
              outcome |-> IF args.context = NoneV THEN "context_required"
                          ELSE IF args.dry_run THEN "dry_run" ELSE "saved",
              args |-> args ]
  /\ ops' = ops + 1
  /\ UNCHANGED <<cmp, llm, analysis, report, dir, inflight, last,
                  extractVars, workers>>

\* the comparison data of the guideline of a bulk session: the FLS flags
BulkData ==
  { d \in SessionData :
      ~d.flags.rationale_type_changed /\ ~d.flags.specificity_decreased }

InitBulk ==
  /\ cmp \in BulkData
  /\ llm \in ReviewArgs(cmp)
  /\ analysis = NoAnalysis
  /\ res = NoRes
  /\ review_state = EmptyReviewState
  /\ NoExtract
  /\ NoWorkers
  /\ report = EmptyReport
  /\ dir = [f \in FileNames |-> Absent]
  /\ inflight = Null
  /\ last = NoRun
  /\ ops = 0

NextBulk ==
  \/ \E force \in BOOLEAN, dry_run \in BOOLEAN :
       RecordOutlierAnalysis(force, dry_run)
  \/ \E args \in CommandLines : ReviewOutliers(args)
  \/ \E args \in BulkArgs : BulkRule(args)

SpecBulk == InitBulk /\ [][NextBulk]_vars

-----------------------------------------------------------------------------
(* compute_overall_status on the human_review sections of a comparison *)

SlotValues == {NoneV, "accept", "reject"}

\* the decisions dicts over some of the given contexts
DecisionMaps(ctxs) ==
  UNION {[S -> {"accept", "reject"}] : S \in SUBSET ctxs}

\* the dicts initialize_fls_structures builds for the comparison, with any
\* decisions
DecidedItems(comparison, kind) ==
  LET ids == AllIds(comparison, kind)
  IN { [ id \in ids |->
           [ contexts |-> ContextsOf(comparison, kind, id),
             decisions |-> d[id] ] ] :
         d \in { e \in [ids -> DecisionMaps(ContextSet)] :
                   \A id \in ids :
                     DOMAIN e[id] \subseteq
                       Range(ContextsOf(comparison, kind, id)) } }

HumanReviews(comparison) ==
  [ overall_status : {"pending"},
    categorization : SlotValues,
    fls_removals : DecidedItems(comparison, "removal"),
    fls_additions : DecidedItems(comparison, "addition"),
    add6_divergence : SlotValues,
    specificity : SlotValues,
    notes : {NoneV} ]

\* the status computed for the analysis on file
ComputeStatus ==
  /\ res = NoRes
  /\ review_state = EmptyReviewState
  /\ NoExtract
  /\ NoWorkers
  /\ res' = [ op |-> "status",
              status |-> compute_overall_status(analysis.human_review,
                                                analysis.flags) ]
  /\ UNCHANGED <<cmp, llm, analysis, mergeVars, review_state, extractVars, workers>>

InitStatus ==
  /\ cmp \in CmpDomain
  /\ llm \in { x \in ReviewArgs(cmp) :
                 \A v \in {"fls_removals", "fls_additions"} :
                   x.verdict[v] # NoneV }
  /\ analysis \in { [create_outlier_analysis(cmp, llm) EXCEPT
                       !.human_review = h] :
                      h \in HumanReviews(cmp.comparison) }
  /\ res = NoRes
  /\ review_state = EmptyReviewState
  /\ NoExtract
  /\ NoWorkers
  /\ report = EmptyReport
  /\ dir = [f \in FileNames |-> Absent]
  /\ inflight = Null
  /\ last = NoRun
  /\ ops = 0

NextStatus == ComputeStatus

SpecStatus == InitStatus /\ [][NextStatus]_vars

-----------------------------------------------------------------------------
(* Properties of the human review *)

\* the required decision slots: one per applicable aspect, one per
\* (fls_id, context) of fls_removals and of fls_additions
RequiredSlots(human_review, flags) ==
  (IF flags.rationale_type_changed \/ flags.batch_pattern_outlier
   THEN {<<"categorization", "", "">>} ELSE {})
  \cup
  (IF \/ flags.applicability_differs_from_add6
      \/ flags.adjusted_category_differs_from_add6
   THEN {<<"add6_divergence", "", "">>} ELSE {})
  \cup
  (IF flags.specificity_decreased
   THEN {<<"specificity", "", "">>} ELSE {})
  \cup
  UNION { {<<"fls_removals", id, c>> :
             c \in Range(human_review.fls_removals[id].contexts)} :
          id \in DOMAIN human_review.fls_removals }
  \cup
  UNION { {<<"fls_additions", id, c>> :
             c \in Range(human_review.fls_additions[id].contexts)} :
          id \in DOMAIN human_review.fls_additions }

\* the decision a slot holds, None for none
SlotDecision(human_review, slot) ==
  IF slot[1] \in {"fls_removals", "fls_additions"}
  THEN LET item == human_review[slot[1]][slot[2]]
       IN IF slot[3] \in DOMAIN item.decisions
          THEN item.decisions[slot[3]] ELSE NoneV
  ELSE human_review[slot[1]]

\* C9: compute_overall_status returns fully_reviewed iff every required
\* slot holds a decision (also when no slot is required), pending iff a slot
\* is required and none holds a decision, and partial otherwise.
C9_OverallStatus ==
  res.op = "status" =>
    LET hr == analysis.human_review
        required == RequiredSlots(hr, analysis.flags)
        decided == {s \in required : SlotDecision(hr, s) # NoneV}
    IN /\ res.status \in {"fully_reviewed", "pending", "partial"}
       /\ res.status = "fully_reviewed" <=> decided = required
       /\ res.status = "pending" <=> (required # {} /\ decided = {})
       /\ res.status = "partial" <=> (decided # required /\ decided # {})

\* the status of a section with a decision for one context of an id that
\* needs one for both, under batch_pattern_outlier alone, is partial
C9_Witness ==
  /\ res.op = "status"
  /\ res.status = "partial"
  /\ analysis.flags.batch_pattern_outlier
  /\ ~analysis.flags.rationale_type_changed
  /\ analysis.human_review.categorization = NoneV
  /\ \E id \in DOMAIN analysis.human_review.fls_removals :
       LET item == analysis.human_review.fls_removals[id]
       IN Len(item.contexts) = 2 /\ Cardinality(DOMAIN item.decisions) = 1

\* C10: after a run of review-outliers with --accept-all (not a dry run) on
\* an existing analysis, human_review.overall_status is fully_reviewed and
\* every required slot holds the decision accept.
C10_AcceptAllFullyReviewed ==
  ( /\ res.op = "review"
    /\ res.accept_all
    /\ res.outcome # "dry_run"
    /\ analysis # NoAnalysis )
  => /\ analysis.human_review # Null
     /\ analysis.human_review.overall_status = "fully_reviewed"
     /\ \A s \in RequiredSlots(analysis.human_review, analysis.flags) :
          SlotDecision(analysis.human_review, s) = "accept"
     /\ \A kind \in {"removal", "addition"}, ctx \in ContextSet :
          \A id \in IdsOf(analysis.comparison, ctx, kind) :
            LET items == IF kind = "removal"
                         THEN analysis.human_review.fls_removals
                         ELSE analysis.human_review.fls_additions
            IN /\ id \in DOMAIN items
               /\ ctx \in DOMAIN items[id].decisions
               /\ items[id].decisions[ctx] = "accept"

-----------------------------------------------------------------------------
(* Properties of a review session *)

\* C11: the overall_status of the human_review section on file is the value
\* compute_overall_status returns for that section and the flags of the
\* file, after any sequence of record, CLI-flag reviews, interactive
\* reviews and resets.
C11_StatusDerived ==
  (analysis # NoAnalysis /\ analysis.human_review # Null) =>
    analysis.human_review.overall_status =
      compute_overall_status(analysis.human_review, analysis.flags)

\* an interactive detailed review saved a partially reviewed section
C11_Witness ==
  /\ res.op = "interactive"
  /\ res.outcome = "saved"
  /\ analysis.human_review # Null
  /\ analysis.human_review.overall_status = "partial"

\* every decision of the section old is still the decision of new
DecisionsKept(old, new) ==
  /\ \A aspect \in {"categorization", "add6_divergence", "specificity"} :
       old[aspect] # NoneV => new[aspect] = old[aspect]
  /\ \A dict \in {"fls_removals", "fls_additions"} :
       \A id \in DOMAIN old[dict] :
         \A c \in DOMAIN old[dict][id].decisions :
           /\ id \in DOMAIN new[dict]
           /\ c \in DOMAIN new[dict][id].decisions
           /\ new[dict][id].decisions[c] = old[dict][id].decisions[c]

FullyReviewedOnFile ==
  /\ analysis # NoAnalysis
  /\ analysis.human_review # Null
  /\ analysis.human_review.overall_status = "fully_reviewed"

\* C12: a run of review-outliers (CLI flags or interactive) on a guideline
\* whose status is fully_reviewed leaves every existing decision as it is
\* unless the user confirmed the re-review.
C12_NoSilentClobber ==
  [][ ( /\ FullyReviewedOnFile
        /\ res'.op \in {"review", "interactive"}
        /\ ~(res'.op = "interactive" /\ res'.confirmed) )
      => /\ analysis'.human_review # Null
         /\ DecisionsKept(analysis.human_review, analysis'.human_review)
    ]_vars

\* the interactive half of C12
C12_InteractiveConfirms ==
  [][ ( /\ FullyReviewedOnFile
        /\ res'.op = "interactive"
        /\ ~res'.confirmed )
      => analysis' = analysis ]_vars

\* the bulk rules of a review state
AllRules(state) ==
  UNION { {state.bulk_rules[k][id] : id \in DOMAIN state.bulk_rules[k]} :
          k \in {"accept_removals", "accept_additions"} }

\* C13: a run that records a bulk rule leaves the outlier analysis file as
\* it is and changes nothing of review_state but bulk_rules; the state it
\* saves is the state that recording the same rule once more would save;
\* the contexts list of every rule holds all_rust / safe_rust only, each at
\* most once.
C13_BulkRuleFrame ==
  [][ res'.op = "bulk" =>
        /\ analysis' = analysis
        /\ [review_state' EXCEPT !.bulk_rules = review_state.bulk_rules]
             = review_state
        /\ res'.outcome = "saved" =>
             bulk_rules_of(review_state', res'.args) = review_state'
        /\ res'.outcome # "saved" => review_state' = review_state
        /\ \A rule \in AllRules(review_state') :
             /\ Range(rule.contexts) \subseteq ContextSet
             /\ Len(rule.contexts) = Cardinality(Range(rule.contexts))
    ]_vars

\* a rule for both contexts was recorded while the analysis file holds a
\* human review
C13_Witness ==
  /\ res.op = "bulk"
  /\ res.outcome = "saved"
  /\ res.args.context = "both"
  /\ analysis # NoAnalysis
  /\ analysis.human_review # Null
  /\ \E rule \in AllRules(review_state) :
       rule.contexts = <<"all_rust", "safe_rust">>

-----------------------------------------------------------------------------
(* extract-comparison-data: data *)

\* number of fields (per context) in which the decision of a guideline
\* differs from the copy of its mapping entry
MaxChanges == 1

\* accepted matches: two paragraphs of the section fls_s and the section
P1 == [fls_id |-> "fls_p1", category |-> 1, section_fls_id |-> "fls_s"]

P2 == [fls_id |-> "fls_p2", category |-> 1, section_fls_id |-> "fls_s"]

S1 == [fls_id |-> "fls_s", category |-> 0, section_fls_id |-> "fls_s"]

MatchSets == {{}, {P1}, {P2}, {P1, P2}, {S1}}

Applicabilities == {"direct", "Direct", "partial"}

AdjustedCategories == {"required", "advisory"}

RationaleTypes == {"direct_mapping", "rust_prevents"}

\* one context of a mapping entry
MappingContexts ==
  [ applicability : {"direct"}, adjusted_category : {"required"},
    rationale_type : {"direct_mapping"}, confidence : {"high", "medium"},
    accepted_matches : {{P1}, {P1, P2}, {S1}} ]

\* a v1 entry carries the fields of its one context at the top level
V1Entry(c) ==
  [ schema_version |-> "1.0", applicability |-> c.applicability,
    adjusted_category |-> c.adjusted_category,
    rationale_type |-> c.rationale_type, confidence |-> c.confidence,
    accepted_matches |-> c.accepted_matches ]

\* the mapping entries of the guideline: v1 entries and v2 entries
MappingEntries ==
  { V1Entry(c) : c \in MappingContexts }
  \cup
  { [ schema_version |-> "2.0", all_rust |-> c,
      safe_rust |-> [c EXCEPT !.confidence = "high",
                              !.accepted_matches = {P1}] ] :
      c \in MappingContexts }

\* one context of a decision; analysis_summary and search_tools_used stand
\* for "is present and not empty"
DecisionContexts ==
  [ applicability : Applicabilities, adjusted_category : AdjustedCategories,
    rationale_type : RationaleTypes, accepted_matches : MatchSets,
    analysis_summary : BOOLEAN, search_tools_used : BOOLEAN ]

V1Decision(c) ==
  [ schema_version |-> "1.0", applicability |-> c.applicability,
    adjusted_category |-> c.adjusted_category,
    rationale_type |-> c.rationale_type,
    accepted_matches |-> c.accepted_matches,
    analysis_summary |-> c.analysis_summary,
    search_tools_used |-> c.search_tools_used ]

V2Decision(ar, sr) ==
  [schema_version |-> "2.0", all_rust |-> ar, safe_rust |-> sr]

\* is_v2_family: the entry has the per-context structure
is_v2_family(entry) == entry.schema_version # "1.0"

\* the context ctx of an entry or decision in the two-context shape
ContextOf(entry, ctx) == IF is_v2_family(entry) THEN entry[ctx] ELSE entry

\* number of fields of one context in which a decision differs from the
\* mapping entry or lacks its summary or its search tools
ContextChanges(m, d) ==
  Cardinality(
    {f \in {"applicability", "adjusted_category", "rationale_type",
            "accepted_matches"} : d[f] # m[f]}
    \cup {f \in {"analysis_summary", "search_tools_used"} : ~d[f]})

\* the decisions a verification of the entry produces: at most MaxChanges
\* changes in each context
DecisionsFrom(entry) ==
  LET near(ctx) == { d \in DecisionContexts :
                       ContextChanges(ContextOf(entry, ctx), d) <= MaxChanges }
  IN { V1Decision(c) : c \in near("all_rust") \cap near("safe_rust") }
     \cup
     { V2Decision(ar, sr) : ar \in near("all_rust"), sr \in near("safe_rust") }

\* rows of the ADD-6 table
Add6Rows ==
  [ applicability_all_rust : {"direct", "partial"},
    applicability_safe_rust : {"direct"},
    adjusted_category : {"required", "advisory"} ]

\* expected patterns of a batch: per context, the declared fields
ExpectedPatterns ==
  { [all_rust |-> <<>>, safe_rust |-> <<>>],
    [ all_rust |-> [applicability |-> "Direct"],
      safe_rust |-> [applicability |-> "direct",
                     adjusted_category |-> "required"] ],
    [ all_rust |-> [rationale_type |-> "rust_prevents"],
      safe_rust |-> <<>> ] }

-----------------------------------------------------------------------------
(* extract-comparison-data: comparator and flag engine *)

\* normalize_applicability: case folding of the applicability values
normalize_applicability(v) == IF v = "Direct" THEN "direct" ELSE v

\* the fls_ids of a list of accepted matches
MatchIdsOf(matches) == {x.fls_id : x \in matches}

\* compute_comparison of one context: mapping entry, decision, ADD-6 values
compute_comparison(m, d, a) ==
  LET mapping_ids == MatchIdsOf(m.accepted_matches)
      decision_ids == MatchIdsOf(d.accepted_matches)
      removed == mapping_ids \ decision_ids
  IN [ fls_added |-> decision_ids \ mapping_ids,
       fls_removed |-> removed,
       fls_retained |-> mapping_ids \cap decision_ids,
       applicability_changed |->
         normalize_applicability(m.applicability)
           # normalize_applicability(d.applicability),
       adjusted_category_changed |->
         m.adjusted_category # d.adjusted_category,
       rationale_type_changed |-> m.rationale_type # d.rationale_type,
       rationale_type_mapping_to_decision |->
         <<m.rationale_type, d.rationale_type>>,
       applicability_differs_from_add6 |->
         normalize_applicability(d.applicability)
           # normalize_applicability(a.applicability),
       adjusted_category_differs_from_add6 |->
         d.adjusted_category # a.adjusted_category,
       lost_paragraphs |->
         { x.fls_id : x \in
             { y \in m.accepted_matches :
                 /\ y.fls_id \in removed
                 /\ y.category # 0
                 /\ ~\E z \in d.accepted_matches :
                       z.section_fls_id = y.section_fls_id } },
       has_analysis_summary |-> d.analysis_summary,
       has_search_tools |-> d.search_tools_used ]

\* check_pattern_conformance: every field the pattern declares for the
\* context equals the decision's field, applicability after normalization
check_pattern_conformance(d, pattern) ==
  \A field \in DOMAIN pattern :
     IF field = "applicability"
     THEN normalize_applicability(d[field])
            = normalize_applicability(pattern[field])
     ELSE d[field] = pattern[field]

\* the names of the flags other than the meta-flag
OtherFlags ==
  { "fls_removed", "fls_added", "rationale_type_changed",
    "applicability_differs_from_add6", "adjusted_category_differs_from_add6",
    "specificity_decreased", "batch_pattern_outlier",
    "missing_analysis_summary", "missing_search_tools" }

FlagNames == OtherFlags \cup {"multi_dimension_outlier"}

\* compute_flags(comparison_all_rust, comparison_safe_rust, decision, batch):
\* the flags of a guideline, aggregated across both contexts
compute_all_flags(car, csr, decision, pattern) ==
  LET either(field) == car[field] \/ csr[field]
      nonempty(field) == car[field] # {} \/ csr[field] # {}
      others ==
        [ fls_removed |-> nonempty("fls_removed"),
          fls_added |-> nonempty("fls_added"),
          rationale_type_changed |-> either("rationale_type_changed"),
          applicability_differs_from_add6 |->
            either("applicability_differs_from_add6"),
          adjusted_category_differs_from_add6 |->
            either("adjusted_category_differs_from_add6"),
          specificity_decreased |-> nonempty("lost_paragraphs"),
          batch_pattern_outlier |->
            \E ctx \in ContextSet :
               ~check_pattern_conformance(ContextOf(decision, ctx),
                                          pattern[ctx]),
          missing_analysis_summary |-> ~either("has_analysis_summary"),
          missing_search_tools |-> ~either("has_search_tools") ]
      count == Cardinality({f \in OtherFlags : others[f]})
  IN [ f \in FlagNames |->
         IF f = "multi_dimension_outlier" THEN count >= 2 ELSE others[f] ]

\* is_outlier: some flag other than the meta-flag is set
is_outlier(flags) == \E f \in OtherFlags : flags[f]

\* get_active_flags: the names of the flags that are set
get_active_flags(flags) == {f \in DOMAIN flags : flags[f]}

-----------------------------------------------------------------------------
(* extract-comparison-data: the tool *)

\* the record extract_guideline_data returns, given the contexts of the
\* mapping entry and of the decision (ctx -> context record)
GuidelineRecord(gid, mapping_entry, decision, mctx, dctx, add6, pattern) ==
  LET add6_ctx(ctx) ==
        [ applicability |->
            IF ctx = "all_rust" THEN add6.applicability_all_rust
            ELSE add6.applicability_safe_rust,
          adjusted_category |-> add6.adjusted_category ]
      cmp_of(ctx) == compute_comparison(mctx[ctx], dctx[ctx], add6_ctx(ctx))
      flags == compute_all_flags(cmp_of("all_rust"), cmp_of("safe_rust"),
                                 decision, pattern)
  IN [ guideline_id |-> gid,
       add6 |-> add6,
       mapping |-> [ schema_version |-> mapping_entry.schema_version,
                     all_rust |-> mctx["all_rust"],
                     safe_rust |-> mctx["safe_rust"] ],
       decision |-> [ schema_version |-> decision.schema_version,
                      all_rust |-> dctx["all_rust"],
                      safe_rust |-> dctx["safe_rust"] ],
       comparison |-> [ctx \in ContextSet |-> cmp_of(ctx)],
       flags |-> flags ]

\* extract_guideline_data that reads the contexts of a v1 mapping entry with
\* get(context, {}): an entry without accepted matches
extract_guideline_data_no_broadcast(guideline_id, mp, decision, a6, pattern) ==
  LET mapping_entry == mp[guideline_id]
  IN GuidelineRecord(guideline_id, mapping_entry, decision,
       [ ctx \in ContextSet |->
           IF is_v2_family(mapping_entry) THEN mapping_entry[ctx]
           ELSE [mapping_entry EXCEPT !.accepted_matches = {}] ],
       [ctx \in ContextSet |-> ContextOf(decision, ctx)],
       a6[guideline_id], pattern)

\* extract_guideline_data that compares the context all_rust twice
extract_guideline_data_one_context(guideline_id, mp, decision, a6, pattern) ==
  LET mapping_entry == mp[guideline_id]
  IN GuidelineRecord(guideline_id, mapping_entry, decision,
       [ctx \in ContextSet |-> ContextOf(mapping_entry, "all_rust")],
       [ctx \in ContextSet |-> ContextOf(decision, "all_rust")],
       a6[guideline_id], pattern)

\* extract_guideline_data: both records in the two-context shape (a v1
\* record applies to both contexts), one comparison per context, the flags
extract_guideline_data(guideline_id, mp, decision, a6, pattern) ==
  LET mapping_entry == mp[guideline_id]
  IN GuidelineRecord(guideline_id, mapping_entry, decision,
       [ctx \in ContextSet |-> ContextOf(mapping_entry, ctx)],
       [ctx \in ContextSet |-> ContextOf(decision, ctx)],
       a6[guideline_id], pattern)

\* the conformance loop of compute_batch_summary without the normalization
\* of the applicability
ContextConformsVerbatim(exp, dec) ==
  \A field \in DOMAIN exp : dec[field] = exp[field]

\* the conformance loop of compute_batch_summary for one context
ContextConforms(exp, dec) ==
  \A field \in DOMAIN exp :
     LET actual == IF field = "applicability"
                   THEN normalize_applicability(dec[field]) ELSE dec[field]
         exp_val == IF field = "applicability"
                    THEN normalize_applicability(exp[field]) ELSE exp[field]
     IN actual = exp_val

\* compute_batch_summary: the conformance counts and the flagged guidelines
compute_batch_summary(pattern, guideline_data) ==
  [ all_rust_conforms |->
      Cardinality({i \in DOMAIN guideline_data :
         ContextConforms(pattern.all_rust,
                         guideline_data[i].decision.all_rust)}),
    safe_rust_conforms |->
      Cardinality({i \in DOMAIN guideline_data :
         ContextConforms(pattern.safe_rust,
                         guideline_data[i].decision.safe_rust)}),
    total |-> Len(guideline_data),
    flagged |->
      [ f \in FlagNames |->
          { guideline_data[i].guideline_id :
              i \in {j \in DOMAIN guideline_data : guideline_data[j].flags[f]} } ] ]

\* OUTLIER_THRESHOLDS["systematic_pattern"]
systematic_pattern == 2

\* fls_removed_counts[fls_id]["count"] / fls_added_counts[fls_id]["count"]:
\* one increment for every guideline and context whose list has the id
OccurrenceCount(guideline_data, field, fls_id) ==
  Cardinality({ <<i, ctx>> \in (DOMAIN guideline_data) \X ContextSet :
                  fls_id \in guideline_data[i].comparison[ctx][field] })

\* fls_removed_counts[fls_id]["guidelines"]: each guideline once
GuidelinesWith(guideline_data, field, fls_id) ==
  { guideline_data[i].guideline_id :
      i \in { j \in DOMAIN guideline_data :
                \E ctx \in ContextSet :
                   fls_id \in guideline_data[j].comparison[ctx][field] } }

\* systematic_removals / systematic_additions: the ids whose count reaches
\* the threshold (the order of the list is left out)
SystematicPatterns(guideline_data, field) ==
  LET ids == UNION { guideline_data[i].comparison[ctx][field] :
                       i \in DOMAIN guideline_data, ctx \in ContextSet }
  IN { [ fls_id |-> id,
         count |-> OccurrenceCount(guideline_data, field, id),
         guidelines |-> GuidelinesWith(guideline_data, field, id) ] :
       id \in { x \in ids :
                  OccurrenceCount(guideline_data, field, x)
                    >= systematic_pattern } }

\* compute_cross_batch_summary: the systematic patterns, the guidelines
\* flagged on multiple dimensions and the distribution of the flag counts
compute_cross_batch_summary(guideline_data) ==
  LET multi == SelectSeq(guideline_data,
                 LAMBDA g : g.flags["multi_dimension_outlier"])
      flag_count(g) ==
        Cardinality({f \in DOMAIN g.flags :
                       g.flags[f] /\ f # "multi_dimension_outlier"})
  IN [ fls_sections_frequently_removed |->
         SystematicPatterns(guideline_data, "fls_removed"),
       fls_sections_frequently_added |->
         SystematicPatterns(guideline_data, "fls_added"),
       guidelines_flagged_on_multiple_dimensions |->
         [ i \in DOMAIN multi |->
             [ guideline_id |-> multi[i].guideline_id,
               flag_count |-> Cardinality(get_active_flags(multi[i].flags)),
               flags |-> get_active_flags(multi[i].flags) ] ],
       distribution |->
         [ k \in {flag_count(guideline_data[i]) : i \in DOMAIN guideline_data}
             |-> Cardinality({i \in DOMAIN guideline_data :
                                flag_count(guideline_data[i]) = k}) ] ]

\* main() of extract.py for one batch with the guideline G1: reads the
\* mapping file, the ADD-6 data and the decision, writes the comparison data
ExtractComparisonData ==
  LET g == extract_guideline_data(G1, mapping, decision_record, add6_data,
                                  expected)
  IN /\ extracted' = [ guideline |-> g,
                       batch_summary |-> compute_batch_summary(expected, <<g>>),
                       cross_batch_summary |->
                         compute_cross_batch_summary(<<g>>) ]
     /\ UNCHANGED <<mergeVars, cmp, llm, analysis, res, review_state,
                    mapping, add6_data, decision_record, expected, workers>>

\* the mapping files of the runs of extract-comparison-data: the confidence
\* of an entry is copied to the output and takes no part in the comparison
ExtractMappings ==
  { [g \in {G1} |-> e] :
      e \in {x \in MappingEntries :
               ContextOf(x, "all_rust").confidence = "high"} }

InitExtract ==
  /\ mapping \in ExtractMappings
  /\ decision_record \in DecisionsFrom(mapping[G1])
  /\ add6_data \in {[g \in {G1} |-> row] : row \in Add6Rows}
  /\ expected \in ExpectedPatterns
  /\ extracted = Null
  /\ report = EmptyReport
  /\ dir = [f \in FileNames |-> Absent]
  /\ inflight = Null
  /\ last = NoRun
  /\ ops = 0
  /\ cmp = Null
  /\ llm = Null
  /\ analysis = NoAnalysis
  /\ res = NoRes
  /\ review_state = EmptyReviewState
  /\ NoWorkers

NextExtract == ExtractComparisonData

SpecExtract == InitExtract /\ [][NextExtract]_vars

-----------------------------------------------------------------------------
(* reset-verification and the mapping file *)

\* the loop of reset_mappings over one entry: confidence high becomes
\* medium, at the top level (v1) and in each context (v2/v3)
ResetEntry(entry) ==
  LET top == IF "confidence" \in DOMAIN entry /\ entry.confidence = "high"
             THEN [entry EXCEPT !.confidence = "medium"] ELSE entry
  IN [ k \in DOMAIN top |->
         IF /\ k \in ContextSet
            /\ top[k].confidence = "high"
         THEN [top[k] EXCEPT !.confidence = "medium"]
         ELSE top[k] ]

\* v1_reset_count + v2_context_reset_count
ResetCount(mp) ==
  Cardinality({g \in DOMAIN mp :
                 "confidence" \in DOMAIN mp[g] /\ mp[g].confidence = "high"})
  + Cardinality({gc \in (DOMAIN mp) \X ContextSet :
                   /\ gc[2] \in DOMAIN mp[gc[1]]
                   /\ mp[gc[1]][gc[2]].confidence = "high"})

\* reset_mappings: the mapping file after the run
reset_mappings(mp, dry_run) ==
  IF ~dry_run /\ ResetCount(mp) > 0
  THEN [g \in DOMAIN mp |-> ResetEntry(mp[g])]
  ELSE mp

\* main() of reset_verification.py without --delete-cache: resets the
\* confidence in the mapping file; progress.json, which it regenerates, is
\* not part of the model
ResetVerification(dry_run) ==
  /\ ops < MaxOps
  /\ mapping' = reset_mappings(mapping, dry_run)
  /\ last' = [ NoRun EXCEPT !.op = "reset_verification",
                            !.dry_run = dry_run ]
  /\ ops' = ops + 1
  /\ UNCHANGED <<report, dir, inflight, cmp, llm, analysis, res, review_state,
                 add6_data, decision_record, expected, extracted, workers>>

\* the decision that takes the mapping entry over as it is
BaselineDecision(entry) ==
  LET copy(c) ==
        [ applicability |-> c.applicability,
          adjusted_category |-> c.adjusted_category,
          rationale_type |-> c.rationale_type,
          accepted_matches |-> c.accepted_matches,
          analysis_summary |-> TRUE, search_tools_used |-> TRUE ]
  IN IF is_v2_family(entry)
     THEN V2Decision(copy(entry.all_rust), copy(entry.safe_rust))
     ELSE V1Decision(copy(entry))

\* mapping files with one entry whose all_rust context accepts fls_p1
BaselineMappings ==
  { [g \in {G1} |-> e] :
      e \in {x \in MappingEntries :
               ContextOf(x, "all_rust").accepted_matches = {P1}} }

\* comparison data in which fls_a was removed in all_rust and nothing else
\* is flagged
BaselineData ==
  { d \in SessionData :
      /\ d.flags.fls_removed
      /\ ~d.flags.fls_added
      /\ ~d.flags.rationale_type_changed
      /\ ~d.flags.specificity_decreased
      /\ d.comparison["safe_rust"].fls_removed = {} }

InitBaseline ==
  /\ mapping \in BaselineMappings
  /\ decision_record = BaselineDecision(mapping[G1])
  /\ add6_data \in {[g \in {G1} |-> row] :
                      row \in {r \in Add6Rows :
                                 r.adjusted_category = "required"}}
  /\ expected = [all_rust |-> <<>>, safe_rust |-> <<>>]
  /\ extracted = Null
  /\ report = EmptyReport
  /\ dir = [f \in FileNames |-> Absent]
  /\ inflight = Null
  /\ last = NoRun
  /\ ops = 0
  /\ cmp \in BaselineData
  /\ llm \in ReviewArgs(cmp)
  /\ analysis = NoAnalysis
  /\ res = NoRes
  /\ review_state = EmptyReviewState
  /\ NoWorkers

\* the tools of the verification and of the analysis that run while the
\* mapping file and the ADD-6 data are on disk
NextBaseline ==
  \/ ExtractComparisonData
  \/ \E dry_run \in BOOLEAN : ResetVerification(dry_run)
  \/ \E dry_run \in BOOLEAN : MergeDecisions(FALSE, dry_run, FALSE)
  \/ \E d \in Decisions, dry_run \in BOOLEAN :
       RecordDecisionPerGuideline(G1, d, Null, dry_run)
  \/ \E dry_run \in BOOLEAN : ResetBatch({G1}, dry_run)
  \/ \E force \in BOOLEAN, dry_run \in BOOLEAN :
       RecordOutlierAnalysis(force, dry_run)
  \/ \E args \in CommandLines : ReviewOutliers(args)
  \/ \E dry_run \in BOOLEAN : ResetReview(dry_run)

SpecBaseline == InitBaseline /\ [][NextBaseline]_vars

\* C20 as claimed: no operation of the verification and analysis tools
\* changes a field of a mapping entry or of an ADD-6 row.
C20_BaselineReadOnly ==
  [][mapping' = mapping /\ add6_data' = add6_data]_vars

\* what holds of the two inputs: the ADD-6 data is never written, and the
\* mapping file is written by reset-verification only (not in a dry run),
\* which changes the confidence of an entry and no other field
C20_OnlyResetVerificationWrites ==
  [][ /\ add6_data' = add6_data
      /\ mapping' # mapping =>
           /\ last'.op = "reset_verification"
           /\ ~last'.dry_run
           /\ \A ctx \in ContextSet :
                 LET old == ContextOf(mapping[G1], ctx)
                     new == ContextOf(mapping'[G1], ctx)
                 IN new = [old EXCEPT !.confidence = new.confidence] ]_vars

-----------------------------------------------------------------------------
(* Properties of extract-comparison-data *)

\* the decision has, in both contexts, the applicability, the adjusted
\* category, the rationale type and the accepted matches of the mapping entry
IdenticalToMapping ==
  \A ctx \in ContextSet :
     LET m == ContextOf(mapping[G1], ctx)
         d == ContextOf(decision_record, ctx)
     IN /\ d.applicability = m.applicability
        /\ d.adjusted_category = m.adjusted_category
        /\ d.rationale_type = m.rationale_type
        /\ d.accepted_matches = m.accepted_matches

\* no difference between mapping entry and decision in either context
NoDiff(comparison) ==
  \A ctx \in ContextSet :
     /\ comparison[ctx].fls_added = {}
     /\ comparison[ctx].fls_removed = {}
     /\ comparison[ctx].lost_paragraphs = {}
     /\ ~comparison[ctx].applicability_changed
     /\ ~comparison[ctx].adjusted_category_changed
     /\ ~comparison[ctx].rationale_type_changed

\* the flags that compare the decision with the mapping entry
DiffFlags ==
  {"fls_added", "fls_removed", "rationale_type_changed", "specificity_decreased"}

\* C15 as claimed: for a decision identical to its mapping entry in both
\* contexts the comparison has no difference, no flag is set and the
\* guideline is not an outlier.
C15_IdenticalNoFlag ==
  (extracted # Null /\ IdenticalToMapping) =>
     /\ NoDiff(extracted.guideline.comparison)
     /\ \A f \in FlagNames : ~extracted.guideline.flags[f]
     /\ ~is_outlier(extracted.guideline.flags)

\* C15 amended: for a decision identical to its mapping entry in both
\* contexts fls_added, fls_removed and lost_paragraphs are empty, every
\* *_changed field is false and none of the flags fls_added, fls_removed,
\* rationale_type_changed and specificity_decreased is set.  The flags that
\* compare the decision with the ADD-6 row or with the expected pattern of the
\* batch, and the flags of a missing summary or of missing search tools, can
\* be set, and then the guideline is an outlier.
C15_IdenticalNoDiff ==
  (extracted # Null /\ IdenticalToMapping) =>
     /\ NoDiff(extracted.guideline.comparison)
     /\ \A f \in DiffFlags : ~extracted.guideline.flags[f]
     /\ is_outlier(extracted.guideline.flags) <=>
          \E f \in OtherFlags \ DiffFlags : extracted.guideline.flags[f]

\* a v1 decision identical to its v1 mapping entry was extracted; it differs
\* from the ADD-6 row and is an outlier
C15_Witness ==
  /\ extracted # Null
  /\ IdenticalToMapping
  /\ ~is_v2_family(mapping[G1])
  /\ ~is_v2_family(decision_record)
  /\ extracted.guideline.flags["applicability_differs_from_add6"]
  /\ is_outlier(extracted.guideline.flags)

\* the fls_ids of the accepted matches of a record in one context, read
\* from the record as it is stored
StoredIds(record, ctx) ==
  IF record.schema_version = "1.0"
  THEN {x.fls_id : x \in record.accepted_matches}
  ELSE {x.fls_id : x \in record[ctx].accepted_matches}

\* C16: in each context fls_added = ids(D) \ ids(M), fls_removed =
\* ids(M) \ ids(D) and fls_retained = ids(M) \cap ids(D); the three sets are
\* pairwise disjoint and their union is ids(M) \cup ids(D); the flag
\* fls_added (fls_removed) is set iff the set is non-empty in some context.
C16_SetAlgebra ==
  extracted # Null =>
    LET comparison == extracted.guideline.comparison
        flags == extracted.guideline.flags
    IN /\ \A ctx \in ContextSet :
            LET M == StoredIds(mapping[G1], ctx)
                D == StoredIds(decision_record, ctx)
                c == comparison[ctx]
            IN /\ c.fls_added = D \ M
               /\ c.fls_removed = M \ D
               /\ c.fls_retained = M \cap D
               /\ c.fls_added \cap c.fls_removed = {}
               /\ c.fls_added \cap c.fls_retained = {}
               /\ c.fls_removed \cap c.fls_retained = {}
               /\ c.fls_added \cup c.fls_removed \cup c.fls_retained = M \cup D
       /\ flags["fls_added"] <=>
            \E ctx \in ContextSet : comparison[ctx].fls_added # {}
       /\ flags["fls_removed"] <=>
            \E ctx \in ContextSet : comparison[ctx].fls_removed # {}

\* one id was replaced by another in all_rust and nothing changed in
\* safe_rust, where an id is retained: both flags are set
C16_Witness ==
  /\ extracted # Null
  /\ extracted.guideline.comparison["all_rust"].fls_added # {}
  /\ extracted.guideline.comparison["all_rust"].fls_removed # {}
  /\ extracted.guideline.comparison["safe_rust"].fls_added = {}
  /\ extracted.guideline.comparison["safe_rust"].fls_removed = {}
  /\ extracted.guideline.comparison["safe_rust"].fls_retained # {}
  /\ extracted.guideline.flags["fls_added"]
  /\ extracted.guideline.flags["fls_removed"]

\* some field that the expected pattern declares for the context differs
\* from the decision's value, applicability compared after normalization
DeclaredFieldDiffers(ctx) ==
  \E field \in DOMAIN expected[ctx] :
     LET value == ContextOf(decision_record, ctx)[field]
     IN IF field = "applicability"
        THEN normalize_applicability(value)
               # normalize_applicability(expected[ctx][field])
        ELSE value # expected[ctx][field]

\* C17: batch_pattern_outlier is set iff in some context a field declared in
\* the expected pattern differs from the decision's value (applicability
\* after alias normalization); the conformance counts of the batch summary
\* agree with it: the guideline is counted as conforming in a context iff no
\* declared field differs there, so the flag is clear iff it is counted in
\* both contexts.
C17_PatternOutlier ==
  extracted # Null =>
    LET flag == extracted.guideline.flags["batch_pattern_outlier"]
        summary == extracted.batch_summary
    IN /\ flag <=> \E ctx \in ContextSet : DeclaredFieldDiffers(ctx)
       /\ summary.all_rust_conforms =
            IF DeclaredFieldDiffers("all_rust") THEN 0 ELSE 1
       /\ summary.safe_rust_conforms =
            IF DeclaredFieldDiffers("safe_rust") THEN 0 ELSE 1
       /\ ~flag <=> ( /\ summary.all_rust_conforms = summary.total
                      /\ summary.safe_rust_conforms = summary.total )
       /\ flag <=> G1 \in summary.flagged["batch_pattern_outlier"]

\* the decision conforms in all_rust up to the spelling of the applicability
\* and deviates in safe_rust: the flag is set and only all_rust is counted
C17_Witness ==
  /\ extracted # Null
  /\ "applicability" \in DOMAIN expected["all_rust"]
  /\ ContextOf(decision_record, "all_rust").applicability
       # expected["all_rust"].applicability
  /\ extracted.batch_summary.all_rust_conforms = 1
  /\ extracted.batch_summary.safe_rust_conforms = 0
  /\ extracted.guideline.flags["batch_pattern_outlier"]

\* the flags other than the meta-flag that are set
SetOtherFlags(flags) == {f \in OtherFlags : flags[f]}

\* C18 as claimed: multi_dimension_outlier is set iff at least two of the
\* other flags are set; the guideline is an outlier iff some other flag is
\* set; the flag_count and the flags of an entry of the guidelines flagged on
\* multiple dimensions, and the flag distribution, leave out the meta-flag.
C18_MetaFlagNeverCounted ==
  extracted # Null =>
    LET flags == extracted.guideline.flags
        n == Cardinality(SetOtherFlags(flags))
        cross == extracted.cross_batch_summary
        multi == cross.guidelines_flagged_on_multiple_dimensions
    IN /\ flags["multi_dimension_outlier"] <=> n >= 2
       /\ is_outlier(flags) <=> n >= 1
       /\ \A i \in DOMAIN multi :
             /\ multi[i].flag_count = n
             /\ "multi_dimension_outlier" \notin multi[i].flags
       /\ DOMAIN cross.distribution = {n}

\* what holds of the counts: the meta-flag is set iff at least two of the
\* other flags are set, the guideline is an outlier iff one of them is set,
\* the guideline is listed as flagged on multiple dimensions iff the
\* meta-flag is set, and the flag distribution counts the other flags only
C18_CountOfOtherFlags ==
  extracted # Null =>
    LET flags == extracted.guideline.flags
        n == Cardinality(SetOtherFlags(flags))
        cross == extracted.cross_batch_summary
        multi == cross.guidelines_flagged_on_multiple_dimensions
    IN /\ flags["multi_dimension_outlier"] <=> n >= 2
       /\ is_outlier(flags) <=> n >= 1
       /\ Len(multi) = IF n >= 2 THEN 1 ELSE 0
       /\ DOMAIN cross.distribution = {n}
       /\ cross.distribution[n] = 1

\* the entry of a guideline flagged on multiple dimensions counts the
\* meta-flag with the other flags
C18_FlagCountWithMetaFlag ==
  extracted # Null =>
    LET multi ==
          extracted.cross_batch_summary.guidelines_flagged_on_multiple_dimensions
    IN \A i \in DOMAIN multi :
          multi[i].flag_count =
            Cardinality(SetOtherFlags(extracted.guideline.flags)) + 1

\* the ids surfaced as systematic removals ("fls_removed") or additions
SurfacedIds(field) ==
  { x.fls_id :
      x \in IF field = "fls_removed"
            THEN extracted.cross_batch_summary.fls_sections_frequently_removed
            ELSE extracted.cross_batch_summary.fls_sections_frequently_added }

\* the guidelines of the run that removed / added the id in some context
DistinctGuidelines(field, fls_id) ==
  IF \E ctx \in ContextSet :
        fls_id \in extracted.guideline.comparison[ctx][field]
  THEN {extracted.guideline.guideline_id}
  ELSE {}

\* C22: an fls_id is surfaced as a systematic removal (addition) iff the
\* number of distinct guidelines that removed (added) it in any context
\* reaches the threshold; one guideline removing it in both contexts counts
\* once
C22_SystematicByGuidelines ==
  extracted # Null =>
    \A field \in {"fls_removed", "fls_added"} :
       \A fls_id \in MatchIdsOf({P1, P2, S1}) :
          fls_id \in SurfacedIds(field)
            <=> Cardinality(DistinctGuidelines(field, fls_id))
                  >= systematic_pattern

\* what the code does: an fls_id is surfaced iff the number of pairs
\* (guideline, context) that removed (added) it reaches the threshold
C22_SystematicByOccurrences ==
  extracted # Null =>
    \A field \in {"fls_removed", "fls_added"} :
       \A fls_id \in MatchIdsOf({P1, P2, S1}) :
          fls_id \in SurfacedIds(field)
            <=> Cardinality({ ctx \in ContextSet :
                   fls_id \in extracted.guideline.comparison[ctx][field] })
                  >= systematic_pattern

(* Properties of the per_id structures of record-outlier-analysis *)

AspectOfKind(kind) ==
  IF kind = "removal" THEN "fls_removals" ELSE "fls_additions"

\* the contexts of the comparison data in which the id was removed / added
ContextsWith(kind, id) ==
  { ctx \in ContextSet :
      id \in (IF kind = "removal" THEN cmp.comparison[ctx].fls_removed
              ELSE cmp.comparison[ctx].fls_added) }

\* C23: the per_id structure of a saved analysis has exactly one entry per
\* fls_id removed (added) in either context; the contexts list of an entry
\* is exactly the contexts in which the id was removed (added), without
\* repetition and [all_rust, safe_rust] for an id removed in both; every key
\* of removal_decisions (addition_decisions) is in the contexts list
C23_PerIdStructure ==
  (res.op = "record" /\ res.outcome = "saved") =>
    \A kind \in {"removal", "addition"} :
       LET aspect == analysis.llm_analysis[AspectOfKind(kind)]
           ids == {id \in FlsIds : ContextsWith(kind, id) # {}}
       IN /\ ids # {} => aspect # Null /\ aspect.per_id # Null
          /\ (aspect # Null /\ ids = {}) => aspect.per_id = Null
          /\ ids # {} =>
               /\ DOMAIN aspect.per_id = ids
               /\ \A id \in ids :
                    LET entry == aspect.per_id[id]
                    IN /\ Range(entry.contexts) = ContextsWith(kind, id)
                       /\ Len(entry.contexts)
                            = Cardinality(ContextsWith(kind, id))
                       /\ ContextsWith(kind, id) = ContextSet =>
                            entry.contexts = <<"all_rust", "safe_rust">>
                       /\ entry.decisions \subseteq Range(entry.contexts)

\* a saved analysis of an id removed in both contexts, justified for one
C23_Witness ==
  /\ res.op = "record"
  /\ res.outcome = "saved"
  /\ ContextsWith("removal", "fls_a") = ContextSet
  /\ analysis.llm_analysis.fls_removals.per_id["fls_a"].contexts
       = <<"all_rust", "safe_rust">>
  /\ analysis.llm_analysis.fls_removals.per_id["fls_a"].decisions
       = {"all_rust"}

\* a justification whose fls_id was not removed (added) in any context
StrayId(kind, d) == ContextsWith(kind, d.fls_id) = {}

\* a justification for a context in which its fls_id was not removed (added)
StrayContext(kind, d) ==
  /\ d.context # "both"
  /\ ContextsWith(kind, d.fls_id) # {}
  /\ d.context \notin ContextsWith(kind, d.fls_id)

WarningsOf(kind) ==
  IF kind = "removal" THEN res.warnings.removals ELSE res.warnings.additions

\* C24: in a run that passes the validation gate, a justification whose
\* fls_id, or whose context for that fls_id, is not in the removed (added)
\* set of the comparison produces a warning; the run is not aborted and the
\* justification adds no entry to removal_decisions (addition_decisions)
C24_StrayDetailWarns ==
  (res.op = "record" /\ res.outcome \in {"saved", "dry_run"}) =>
    \A kind \in {"removal", "addition"} :
       \A d \in DetailsOf(llm, kind) :
          (StrayId(kind, d) \/ StrayContext(kind, d)) => d \in WarningsOf(kind)

\* what the code does: only a stray context of an id that is in the set is
\* warned about, a stray id is ignored without a message; neither aborts
\* the run (the gate looks at the ids of the comparison only) and neither
\* adds an entry
C24_StrayContextWarns ==
  /\ (res.op = "record" /\ res.outcome \in {"saved", "dry_run"}) =>
       \A kind \in {"removal", "addition"} :
          WarningsOf(kind)
            = {d \in DetailsOf(llm, kind) : StrayContext(kind, d)}
  /\ (res.op = "record" /\ res.outcome = "invalid") =>
       res.errors # NoErrors
  /\ (res.op = "record" /\ res.outcome = "saved") =>
       \A kind \in {"removal", "addition"} :
          \A d \in DetailsOf(llm, kind) :
             LET aspect == analysis.llm_analysis[AspectOfKind(kind)]
             IN /\ StrayId(kind, d) =>
                     \/ aspect = Null
                     \/ aspect.per_id = Null
                     \/ d.fls_id \notin DOMAIN aspect.per_id
                /\ StrayContext(kind, d) =>
                     d.context \notin aspect.per_id[d.fls_id].decisions

(* Properties of the review status over a session *)

\* the place of the status on file in the order pending, partial,
\* fully_reviewed; a guideline without human_review is unreviewed
StatusRank(a) ==
  IF a = NoAnalysis THEN 0
  ELSE IF a.human_review = Null THEN 0
  ELSE CASE a.human_review.overall_status = "fully_reviewed" -> 2
         [] a.human_review.overall_status = "partial" -> 1
         [] OTHER -> 0

\* C25: no run of review-outliers (a single-aspect or per-(fls_id, context)
\* accept / reject, accept-all, interactive review) moves the status on file
\* backwards in the order pending, partial, fully_reviewed; among the review
\* tools only reset-review lowers it, and it leaves the guideline unreviewed
C25_StatusForward ==
  [][ /\ res'.op \in {"review", "interactive"} =>
           StatusRank(analysis') >= StatusRank(analysis)
      /\ ( /\ res'.op \in {"review", "interactive", "reset_review"}
           /\ StatusRank(analysis') < StatusRank(analysis) ) =>
           /\ res'.op = "reset_review"
           /\ analysis'.human_review = Null ]_vars

\* an interactive review was saved over decisions of an earlier run and
\* left the guideline partially reviewed
C25_Witness ==
  /\ res.op = "interactive"
  /\ res.outcome = "saved"
  /\ ops = 2
  /\ analysis.human_review.overall_status = "partial"
  /\ analysis.human_review.categorization = "reject"

\* the slots of an outlier analysis file that hold a human decision: the
\* aspects and the (dict, fls_id, context) entries
HumanDecisionSlots(a) ==
  IF a = NoAnalysis THEN {}
  ELSE IF a.human_review = Null THEN {}
  ELSE { <<aspect>> :
           aspect \in { x \in {"categorization", "add6_divergence",
                                "specificity"} :
                          a.human_review[x] # NoneV } }
       \cup
       UNION { { <<dict, id, c>> :
                   c \in DOMAIN a.human_review[dict][id].decisions } :
               dict \in {"fls_removals", "fls_additions"},
               id \in UNION { DOMAIN a.human_review[d] :
                                d \in {"fls_removals", "fls_additions"} } }

\* C30: human decisions of an outlier analysis file are removed only by
\* reset-review: after a run of record-outlier-analysis (with or without
\* --force) or of review-outliers, every slot that held a human decision
\* still holds one.
C30_OnlyResetRemoves ==
  [][ res'.op \in {"record", "review", "interactive"} =>
        HumanDecisionSlots(analysis) \subseteq HumanDecisionSlots(analysis')
    ]_vars

\* the part of C30 that the tools keep: review-outliers, and
\* record-outlier-analysis without --force, keep every decided slot decided
C30_KeptWithoutForce ==
  [][ ( \/ res'.op \in {"review", "interactive"}
        \/ res'.op = "record" /\ res'.outcome = "exists" ) =>
        HumanDecisionSlots(analysis) \subseteq HumanDecisionSlots(analysis')
    ]_vars

-----------------------------------------------------------------------------
(* generate-analysis-reports: the attention score *)

\* the number of flags set in a comparison data file of SpecAttention
MaxSetFlags == 2

\* Priority weights for attention scoring
PRIORITY_WEIGHTS ==
  [ specificity_decreased |-> 10,
    multi_dimension_outlier |-> 8,
    rationale_type_changed |-> 5,
    fls_removed |-> 4,
    applicability_differs_from_add6 |-> 4,
    adjusted_category_differs_from_add6 |-> 3,
    fls_added |-> 2,
    batch_pattern_outlier |-> 2,
    missing_analysis_summary |-> 1,
    missing_search_tools |-> 1 ]

LLM_VERDICT_PRIORITY ==
  [ inappropriate |-> 10, needs_review |-> 7, appropriate |-> 0, n_a |-> 0 ]

\* the aspects compute_attention_score reads, in its order
ScoredAspects ==
  << "categorization", "fls_removals", "fls_additions", "add6_divergence",
     "specificity" >>

\* the loop over flags.items(): the weights of the set flags that have one
RECURSIVE FlagScore(_, _)
FlagScore(flags, names) ==
  IF names = {} THEN 0
  ELSE LET flag == CHOOSE f \in names : TRUE
       IN (IF flags[flag] /\ flag \in DOMAIN PRIORITY_WEIGHTS
           THEN PRIORITY_WEIGHTS[flag] ELSE 0)
          + FlagScore(flags, names \ {flag})

\* LLM_VERDICT_PRIORITY.get(verdict, 0) of one aspect; an aspect that is not
\* a dict adds nothing
AspectScore(aspect_data) ==
  IF aspect_data = Null THEN 0
  ELSE IF aspect_data.verdict \in DOMAIN LLM_VERDICT_PRIORITY
       THEN LLM_VERDICT_PRIORITY[aspect_data.verdict]
       ELSE 0

\* the loop over the five aspects, from aspect i on
RECURSIVE VerdictScore(_, _)
VerdictScore(llm_analysis, i) ==
  IF i > Len(ScoredAspects) THEN 0
  ELSE AspectScore(llm_analysis[ScoredAspects[i]])
       + VerdictScore(llm_analysis, i + 1)

Max0(n) == IF n > 0 THEN n ELSE 0

\* compute_attention_score without the floor at 0
compute_attention_score_no_floor(flags, llm_analysis, human_review) ==
  LET score ==
        FlagScore(flags, DOMAIN flags)
        + (IF llm_analysis = Null THEN 0 ELSE VerdictScore(llm_analysis, 1))
      status ==
        IF human_review = Null THEN "pending"
        ELSE human_review.overall_status
  IN IF status = "fully_reviewed" THEN score - 15
     ELSE IF status = "partial" THEN score - 5
     ELSE score

compute_attention_score(flags, llm_analysis, human_review) ==
  LET score ==
        FlagScore(flags, DOMAIN flags)
        + (IF llm_analysis = Null THEN 0 ELSE VerdictScore(llm_analysis, 1))
      status ==
        IF human_review = Null THEN "pending"
        ELSE human_review.overall_status
  IN IF status = "fully_reviewed" THEN Max0(score - 15)
     ELSE IF status = "partial" THEN Max0(score - 5)
     ELSE score

\* load_all_outlier_data for the one guideline: the flags of the comparison
\* data file, llm_analysis and human_review of the outlier analysis file (None
\* without the file)
LoadOutlierData ==
  LET llm_analysis ==
        IF analysis = NoAnalysis THEN Null ELSE analysis.llm_analysis
      human_review ==
        IF analysis = NoAnalysis THEN Null ELSE analysis.human_review
  IN /\ res = NoRes
     /\ res' = [ op |-> "attention",
                 attention_score |->
                   compute_attention_score(cmp.flags, llm_analysis,
                                           human_review) ]
     /\ UNCHANGED <<cmp, llm, analysis, mergeVars, review_state, extractVars, workers>>

\* the flags files of SpecAttention: any flags, at most MaxSetFlags of them set
AttentionFlags ==
  { [f \in FlagNames |-> f \in S] :
      S \in {T \in SUBSET FlagNames : Cardinality(T) <= MaxSetFlags} }

AttentionVerdicts == {"inappropriate", "needs_review", "appropriate"}

\* the outlier analysis files of SpecAttention: absent, or with a verdict on
\* every aspect and any stored status
AttentionAnalyses ==
  {NoAnalysis} \cup
  { [ kind |-> "analysis",
      llm_analysis |-> [a \in VerdictNames |-> [verdict |-> v[a]]],
      human_review |-> h ] :
      v \in [VerdictNames -> AttentionVerdicts],
      h \in {Null} \cup
            [overall_status : {"pending", "partial", "fully_reviewed"}] }

InitAttention ==
  /\ cmp \in [flags : AttentionFlags]
  /\ llm = Null
  /\ analysis \in AttentionAnalyses
  /\ res = NoRes
  /\ review_state = EmptyReviewState
  /\ NoExtract
  /\ NoWorkers
  /\ report = EmptyReport
  /\ dir = [f \in FileNames |-> Absent]
  /\ inflight = Null
  /\ last = NoRun
  /\ ops = 0

NextAttention == LoadOutlierData

SpecAttention == InitAttention /\ [][NextAttention]_vars

(* Properties of the attention score *)

\* W: the weights of the set flags plus the severities of the verdicts
AttentionWeight(flags, llm_analysis) ==
  LET weight(f) == IF flags[f] THEN PRIORITY_WEIGHTS[f] ELSE 0
      severity(a) ==
        IF llm_analysis = Null THEN 0
        ELSE CASE llm_analysis[a].verdict = "inappropriate" -> 10
               [] llm_analysis[a].verdict = "needs_review" -> 7
               [] OTHER -> 0
  IN weight("specificity_decreased") + weight("multi_dimension_outlier")
     + weight("rationale_type_changed") + weight("fls_removed")
     + weight("applicability_differs_from_add6")
     + weight("adjusted_category_differs_from_add6") + weight("fls_added")
     + weight("batch_pattern_outlier") + weight("missing_analysis_summary")
     + weight("missing_search_tools")
     + severity("categorization") + severity("fls_removals")
     + severity("fls_additions") + severity("add6_divergence")
     + severity("specificity")

\* d: the discount of a review status
AttentionDiscount(status) ==
  CASE status = "fully_reviewed" -> 15
    [] status = "partial" -> 5
    [] OTHER -> 0

\* C21: the attention score is max(0, W - d), with W the weights of the set
\* flags plus the verdict severities and d the discount of the stored status;
\* it is never negative, and for the same flags and verdicts it does not
\* increase from pending to partial to fully_reviewed
C21_AttentionScore ==
  res.op = "attention" =>
    LET llm_analysis ==
          IF analysis = NoAnalysis THEN Null ELSE analysis.llm_analysis
        status ==
          IF analysis = NoAnalysis \/ analysis.human_review = Null
          THEN "pending"
          ELSE analysis.human_review.overall_status
        W == AttentionWeight(cmp.flags, llm_analysis)
        at(s) ==
          compute_attention_score(cmp.flags, llm_analysis,
                                  [overall_status |-> s])
    IN /\ res.attention_score = Max0(W - AttentionDiscount(status))
       /\ res.attention_score >= 0
       /\ at("pending") >= at("partial")
       /\ at("partial") >= at("fully_reviewed")

\* a fully reviewed guideline whose weight is below the discount
C21_Witness ==
  /\ res.op = "attention"
  /\ analysis # NoAnalysis
  /\ analysis.human_review # Null
  /\ analysis.human_review.overall_status = "fully_reviewed"
  /\ AttentionWeight(cmp.flags, analysis.llm_analysis) \in 1..14
  /\ res.attention_score = 0

====
